---------------------------- MODULE Spec2Model ----------------------------
(***************************************************************************)
(* A model of the interpreter machine of src/src/machine.rs: pointer       *)
(* provenance, the per-allocation memory hooks with the race detector,     *)
(* the aliasing monitor and the weak-memory buffer behind them, the        *)
(* per-step hook with the tag GC, and the constant-evaluation cache.       *)
(***************************************************************************)
EXTENDS Integers, Sequences, FiniteSets, TLC

VARIABLES
    pin,        \* provenance section: the pair of operands under test
    pout,       \* provenance section: what the last operation did
    cfg,        \* MiriConfig as taken over by MiriMachine::new
    allocs,     \* the memory map: allocs[id] is the allocation with that id
    allocation_spans,  \* MiriMachine::allocation_spans
    alloc_addresses,   \* MiriMachine::alloc_addresses
    threads,    \* MiriMachine::threads: the active thread
    clocks,     \* MiriMachine::data_race: vector clocks of threads and of the lock
    borrow_tracker,    \* MiriMachine::borrow_tracker: the monitor's global state
    hook,       \* the last machine hook that ran: inputs, calls made, outcome
    stacks,     \* MiriMachine::threads: each thread's stack of frames
    rng,        \* MiriMachine::rng: the generator's output stream and position
    const_cache,  \* MiriMachine::const_cache: (constant, salt) -> value
    machine,    \* MiriMachine: profiler, counters, clock, extern_statics
    roots,      \* the pointer values held by the machine's other fields, by tag
    trace,      \* the last call of the frame, step and constant hooks, and counts
    runs        \* two runs of one program side by side, for comparing them

provVars == <<pin, pout>>
memVars == <<cfg, allocs, allocation_spans, alloc_addresses, threads, clocks,
            borrow_tracker, hook>>

machVars == <<stacks, rng, const_cache, machine, roots, trace>>

\* What the operations of one section leave alone: the other sections.
nonProvVars == <<memVars, machVars, runs>>
nonMemVars == <<provVars, machVars, runs>>
nonMachVars == <<provVars, memVars, runs>>

vars == <<pin, pout, cfg, allocs, allocation_spans, alloc_addresses, threads,
          clocks, borrow_tracker, hook, stacks, rng, const_cache, machine, roots,
          trace, runs>>

(***************************************************************************)
(* Bounds of the model.                                                    *)
(***************************************************************************)
MaxAllocId == 2
MaxTag == 2
MaxSize == 2
MaxClock == 2
NumThreads == 2
MaxHooks == 3
MaxDraws == 3
MaxFrames == 2
MaxEvals == 4
MaxSteps == 3
MaxPointers == 1
MaxTerminations == 2
MaxOffset == 4
MaxAlignLog == 2

\* Each const has this many addresses (machine.rs 54).
ADDRS_PER_CONST == 16

AllocIds == 1..MaxAllocId
BorTags == 0..MaxTag

(***************************************************************************)
(* Provenance (machine.rs 190-217) and Option<Provenance>.                 *)
(***************************************************************************)
Concrete(a, t) == [kind |-> "Concrete", alloc_id |-> a, tag |-> t]
Wildcard == [kind |-> "Wildcard", alloc_id |-> 0, tag |-> 0]
None == [kind |-> "None", alloc_id |-> 0, tag |-> 0]

Provenance == {Concrete(a, t) : a \in AllocIds, t \in BorTags} \cup {Wildcard}
OptProvenance == Provenance \cup {None}

\* A variant of join whose first arm is missing: equal concrete operands fall
\* through to the last arm.
join_no_same_arm(left, right) ==
    IF left.kind = "Wildcard" THEN right
    ELSE IF right.kind = "Wildcard" THEN left
    ELSE None

\* A variant of join whose first arm compares the allocation ids only.
join_alloc_only(left, right) ==
    IF /\ left.kind = "Concrete" /\ right.kind = "Concrete"
       /\ left.alloc_id = right.alloc_id
    THEN left
    ELSE IF left.kind = "Wildcard" THEN right
    ELSE IF right.kind = "Wildcard" THEN left
    ELSE None

\* A variant of join whose wildcard arm only looks at the left operand.
join_left_wildcard_only(left, right) ==
    IF /\ left.kind = "Concrete" /\ right.kind = "Concrete"
       /\ left.alloc_id = right.alloc_id /\ left.tag = right.tag
    THEN left
    ELSE IF left.kind = "Wildcard" THEN right
    ELSE None

\* A variant of join in which a wildcard wins over the other operand.
join_wildcard_wins(left, right) ==
    IF /\ left.kind = "Concrete" /\ right.kind = "Concrete"
       /\ left.alloc_id = right.alloc_id /\ left.tag = right.tag
    THEN left
    ELSE IF left.kind = "Wildcard" THEN left
    ELSE IF right.kind = "Wildcard" THEN right
    ELSE None

\* Provenance::join: the match arms in source order.
join(left, right) ==
    IF /\ left.kind = "Concrete" /\ right.kind = "Concrete"
       /\ left.alloc_id = right.alloc_id /\ left.tag = right.tag
    THEN left
    ELSE IF left.kind = "Wildcard" THEN right
    ELSE IF right.kind = "Wildcard" THEN left
    ELSE None

\* The outcome of a call: it returns, or it panics.
Ret(v) == [status |-> "ret", val |-> v]
Panic == [status |-> "panic", val |-> None]

\* A structural comparison, as a derived PartialEq would do it.
eq_derived(self, other) == Ret(IF self = other THEN Wildcard ELSE None)

\* <Provenance as PartialEq>::eq: panics whatever the operands.
eq(self, other) == Panic

\* A hash that returns, as a derived Hash would.
hash_derived(self) == Ret(self)

\* <Provenance as Hash>::hash: panics whatever the operand.
hash(self) == Panic

ProvInit ==
    /\ pin \in OptProvenance \X OptProvenance
    /\ pout = [op |-> "none", status |-> "none", val |-> None]

ProvIdle ==
    /\ pin = <<None, None>>
    /\ pout = [op |-> "none", status |-> "none", val |-> None]

\* The interpreter joins the provenance of the two operands.
DoJoin ==
    /\ pout.op = "none"
    /\ pout' = [op |-> "join", status |-> "ret", val |-> join(pin[1], pin[2])]
    /\ UNCHANGED <<pin, nonProvVars>>

\* The interpreter joins the provenance of three operands, the first two
\* first or the last two first.
ProvInit3 ==
    /\ pin \in OptProvenance \X OptProvenance \X OptProvenance
    /\ pout = [op |-> "none", status |-> "none", val |-> None]
DoJoinLeft ==
    /\ pout.op = "none"
    /\ pout' = [op |-> "join_left", status |-> "ret",
                val |-> join(join(pin[1], pin[2]), pin[3])]
    /\ UNCHANGED <<pin, nonProvVars>>
DoJoinRight ==
    /\ pout.op = "none"
    /\ pout' = [op |-> "join_right", status |-> "ret",
                val |-> join(pin[1], join(pin[2], pin[3]))]
    /\ UNCHANGED <<pin, nonProvVars>>

\* Generic code compares two provenances (both operands are Provenance values).
DoEq ==
    /\ pout.op = "none"
    /\ pin[1] \in Provenance /\ pin[2] \in Provenance
    /\ pout' = [op |-> "eq"] @@ eq(pin[1], pin[2])
    /\ UNCHANGED <<pin, nonProvVars>>

\* Generic code hashes a provenance.
DoHash ==
    /\ pout.op = "none"
    /\ pin[1] \in Provenance
    /\ pout' = [op |-> "hash"] @@ hash(pin[1])
    /\ UNCHANGED <<pin, nonProvVars>>

ProvNext == DoJoin \/ DoEq \/ DoHash

(***************************************************************************)
(* Claims about provenance.                                                *)
(***************************************************************************)

\* C1: join of two Concrete provenances with the same allocation id and the
\* same tag returns exactly that Concrete provenance.
C1_JoinSameConcrete ==
    (/\ pout.op = "join"
     /\ pin[1].kind = "Concrete" /\ pin[2].kind = "Concrete"
     /\ pin[1].alloc_id = pin[2].alloc_id /\ pin[1].tag = pin[2].tag)
    => (pout.status = "ret" /\ pout.val = pin[1])

C1_Witness ==
    /\ pout.op = "join"
    /\ pin[1] = Concrete(2, 1) /\ pin[2] = Concrete(2, 1)
    /\ pout.val = Concrete(2, 1)

\* C2: join of two Concrete provenances that differ in allocation id or in
\* tag returns unknown (None), never either operand.
C2_JoinDifferentConcrete ==
    (/\ pout.op = "join"
     /\ pin[1].kind = "Concrete" /\ pin[2].kind = "Concrete"
     /\ (pin[1].alloc_id # pin[2].alloc_id \/ pin[1].tag # pin[2].tag))
    => (pout.status = "ret" /\ pout.val = None)

C2_Witness ==
    /\ pout.op = "join"
    /\ pin[1] = Concrete(1, 1) /\ pin[2] = Concrete(1, 2)
    /\ pout.val = None

\* C3: join(Wildcard, X) = X and join(X, Wildcard) = X for every X: every
\* Concrete provenance, Wildcard and unknown (None).
C3_JoinWildcard ==
    /\ (pout.op = "join" /\ pin[1] = Wildcard) => pout.val = pin[2]
    /\ (pout.op = "join" /\ pin[2] = Wildcard) => pout.val = pin[1]

C3_Witness ==
    /\ pout.op = "join"
    /\ pin[1] = Concrete(1, 2) /\ pin[2] = Wildcard
    /\ pout.val = Concrete(1, 2)

\* C4: comparing two Provenance values, or hashing one, panics and never
\* returns a result, also for two identical Concrete values.
C4_EqHashPanic ==
    pout.op \in {"eq", "hash"} => pout.status = "panic"

C4_Witness ==
    /\ pout.op = "eq"
    /\ pin[1] = Concrete(1, 1) /\ pin[2] = Concrete(1, 1)
    /\ pout.status = "panic"

(***************************************************************************)
(* Memory kinds (machine.rs 106-167).                                      *)
(***************************************************************************)
MiriMemoryKind ==
    {"Rust", "Miri", "C", "WinHeap", "WinLocal", "Machine", "Runtime",
     "Global", "ExternStatic", "Tls", "Mmap"}

\* interpret::MemoryKind<MiriMemoryKind>: the engine's own kinds and
\* Machine(kind), written here as the kind's name.
MemoryKind == {"Stack", "CallerLocation"} \cup MiriMemoryKind

\* Only the machine's own bookkeeping memory may leak.
miri_may_leak_machine_only(kind) == kind = "Machine"

\* MayLeak for MiriMemoryKind.
miri_may_leak(kind) ==
    CASE kind \in {"Rust", "Miri", "C", "WinHeap", "WinLocal", "Runtime"} -> FALSE
      [] kind \in {"Machine", "Global", "ExternStatic", "Tls", "Mmap"} -> TRUE

\* MayLeak for MemoryKind: the engine's Stack does not leak, CallerLocation
\* does, Machine(k) asks k.
may_leak(kind) ==
    CASE kind = "Stack" -> FALSE
      [] kind = "CallerLocation" -> TRUE
      [] OTHER -> miri_may_leak(kind)

\* A span for exactly the kinds that may not leak.
should_save_allocation_span_unless_leaky(kind) == ~miri_may_leak(kind)

\* MiriMemoryKind::should_save_allocation_span.
should_save_allocation_span(kind) ==
    CASE kind \in {"Rust", "Miri", "C", "WinHeap", "WinLocal", "Mmap"} -> TRUE
      [] kind \in {"Machine", "Global", "ExternStatic", "Tls", "Runtime"} -> FALSE

(***************************************************************************)
(* Threads and the race detector's clocks (section 4.4 of the design).     *)
(***************************************************************************)
ThreadIds == 1..NumThreads
ZeroClock == [u \in ThreadIds |-> 0]

\* The pointwise maximum of two vector clocks.
ClockJoin(a, b) == [u \in ThreadIds |-> IF a[u] >= b[u] THEN a[u] ELSE b[u]]

\* One byte of data_race::AllocState: the clock of the last write and of the
\* last read of each thread that touched the byte (0: none).
FreshCell == [wr |-> ZeroClock, rd |-> ZeroClock]

\* The bytes of [lo, hi) that thread t may not read: another thread wrote
\* them and that write does not happen before t's current clock.
UnsyncWrites(cells, vc, t, lo, hi) ==
    {b \in lo..(hi - 1) :
        \E u \in ThreadIds \ {t} : cells[b + 1].wr[u] > vc[t][u]}

\* The bytes of [lo, hi) another thread read without a happens-before edge
\* to t's current clock.
UnsyncReads(cells, vc, t, lo, hi) ==
    {b \in lo..(hi - 1) :
        \E u \in ThreadIds \ {t} : cells[b + 1].rd[u] > vc[t][u]}

\* data_race::AllocState::read: Ok, or the race it reports.
data_race_read(cells, vc, t, lo, hi) ==
    IF UnsyncWrites(cells, vc, t, lo, hi) # {} THEN "DataRace" ELSE "Ok"

\* data_race::AllocState::write: Ok, or the race it reports.
data_race_write(cells, vc, t, lo, hi) ==
    IF UnsyncWrites(cells, vc, t, lo, hi) \cup UnsyncReads(cells, vc, t, lo, hi) # {}
    THEN "DataRace" ELSE "Ok"

\* The cells after thread t's access of [lo, hi) was recorded.
RecordAccess(cells, vc, t, lo, hi, is_write) ==
    [i \in 1..Len(cells) |->
        IF i - 1 >= lo /\ i - 1 < hi
        THEN IF is_write
             THEN [cells[i] EXCEPT !.wr[t] = vc[t][t]]
             ELSE [cells[i] EXCEPT !.rd[t] = vc[t][t]]
        ELSE cells[i]]

(***************************************************************************)
(* AllocExtra (machine.rs 329-345) and the allocation around it.           *)
(***************************************************************************)
NoBorrowTracker == [some |-> FALSE, tags |-> {}]
NoDataRace == [some |-> FALSE, cells |-> <<>>]

\* borrow_tracker::AllocState as new_allocation makes it: the base tag granted.
bt_new_allocation(tag) == [some |-> TRUE, tags |-> {tag}]

\* data_race::AllocState::new_allocation: no access recorded yet.
dr_new_allocation(size) == [some |-> TRUE, cells |-> [i \in 1..size |-> FreshCell]]

\* The aliasing monitor's verdict on an access through prov_extra.
bt_check(bt, prov_extra) ==
    IF prov_extra.kind = "Concrete" /\ prov_extra.tag \notin bt.tags
    THEN "AliasingViolation" ELSE "Ok"

\* ProvenanceExtra: Concrete(tag) or Wildcard.
ProvenanceExtra ==
    {[kind |-> "Concrete", tag |-> t] : t \in BorTags} \cup {[kind |-> "Wildcard", tag |-> 0]}

\* An allocation the engine has removed from the memory map.
DeadAlloc(a) ==
    [a EXCEPT !.live = FALSE, !.borrow_tracker = NoBorrowTracker,
              !.data_race = NoDataRace, !.weak_memory = FALSE]

(***************************************************************************)
(* The memory hooks (machine.rs 1087-1311).  A hook's run is the list of   *)
(* calls it made to the three components and its outcome.                  *)
(***************************************************************************)
Call(to, call, id, lo, hi) == [to |-> to, call |-> call, id |-> id, lo |-> lo, hi |-> hi]
Started == [calls |-> <<>>, res |-> "Ok"]

\* `if let Some(x) = &extra.x { x.call(...)?; }`: skipped once an earlier call
\* failed or when the component has no state on this allocation.
Step(acc, some, call, verdict) ==
    IF acc.res # "Ok" \/ ~some THEN acc
    ELSE [calls |-> Append(acc.calls, call), res |-> verdict]

\* `weak_memory.memory_accessed(range, machine.data_race.as_ref().unwrap())`:
\* the unwrap of the machine's race detector comes before the call.
StepWeakMemory(acc, some, machine_data_race, call) ==
    IF acc.res # "Ok" \/ ~some THEN acc
    ELSE IF ~machine_data_race THEN [calls |-> acc.calls, res |-> "panic"]
    ELSE [calls |-> Append(acc.calls, call), res |-> "Ok"]

\* Diagnostics for every allocation id, tracked or not.
EmitAlways(cond, event) == <<event>>

\* The diagnostics a hook emits for a tracked allocation id.
Emit(cond, event) == IF cond THEN <<event>> ELSE <<>>

\* A read hook that leaves the race detector out.
before_memory_read_no_race(m, vc, t, a, id, prov_extra, lo, hi) ==
    StepWeakMemory(
        Step(Started,
             a.borrow_tracker.some, Call("borrow_tracker", "before_memory_read", id, lo, hi),
             bt_check(a.borrow_tracker, prov_extra)),
        a.weak_memory, m.data_race_detector,
        Call("weak_memory", "memory_accessed", id, lo, hi))

\* before_memory_read, lines 1239-1248.
before_memory_read(m, vc, t, a, id, prov_extra, lo, hi) ==
    StepWeakMemory(
        Step(Step(Started,
                  a.data_race.some, Call("data_race", "read", id, lo, hi),
                  data_race_read(a.data_race.cells, vc, t, lo, hi)),
             a.borrow_tracker.some, Call("borrow_tracker", "before_memory_read", id, lo, hi),
             bt_check(a.borrow_tracker, prov_extra)),
        a.weak_memory, m.data_race_detector,
        Call("weak_memory", "memory_accessed", id, lo, hi))

\* A write hook that asks the monitor before the race detector.
before_memory_write_monitor_first(m, vc, t, a, id, prov_extra, lo, hi) ==
    StepWeakMemory(
        Step(Step(Started,
                  a.borrow_tracker.some, Call("borrow_tracker", "before_memory_write", id, lo, hi),
                  bt_check(a.borrow_tracker, prov_extra)),
             a.data_race.some, Call("data_race", "write", id, lo, hi),
             data_race_write(a.data_race.cells, vc, t, lo, hi)),
        a.weak_memory, m.data_race_detector,
        Call("weak_memory", "memory_accessed", id, lo, hi))

\* before_memory_write, lines 1263-1272.
before_memory_write(m, vc, t, a, id, prov_extra, lo, hi) ==
    StepWeakMemory(
        Step(Step(Started,
                  a.data_race.some, Call("data_race", "write", id, lo, hi),
                  data_race_write(a.data_race.cells, vc, t, lo, hi)),
             a.borrow_tracker.some, Call("borrow_tracker", "before_memory_write", id, lo, hi),
             bt_check(a.borrow_tracker, prov_extra)),
        a.weak_memory, m.data_race_detector,
        Call("weak_memory", "memory_accessed", id, lo, hi))

\* A deallocation hook that hands the race detector an empty range.
before_memory_deallocation_empty_range(m, vc, t, a, id, prov_extra, size) ==
    Step(Step(Started,
              a.data_race.some, Call("data_race", "write", id, 0, 0),
              data_race_write(a.data_race.cells, vc, t, 0, 0)),
         a.borrow_tracker.some,
         Call("borrow_tracker", "before_memory_deallocation", id, 0, size),
         bt_check(a.borrow_tracker, prov_extra))

\* A deallocation hook that calls the components in the order of allocation.
before_memory_deallocation_alloc_order(m, vc, t, a, id, prov_extra, size) ==
    StepWeakMemory(
        Step(Step(Started,
                  a.borrow_tracker.some,
                  Call("borrow_tracker", "before_memory_deallocation", id, 0, size),
                  bt_check(a.borrow_tracker, prov_extra)),
             a.data_race.some, Call("data_race", "write", id, 0, size),
             data_race_write(a.data_race.cells, vc, t, 0, size)),
        a.weak_memory, m.data_race_detector,
        Call("weak_memory", "memory_accessed", id, 0, size))

\* before_memory_deallocation, lines 1288-1299: the calls that can fail.
before_memory_deallocation(m, vc, t, a, id, prov_extra, size) ==
    Step(Step(Started,
              a.data_race.some, Call("data_race", "write", id, 0, size),
              data_race_write(a.data_race.cells, vc, t, 0, size)),
         a.borrow_tracker.some,
         Call("borrow_tracker", "before_memory_deallocation", id, 0, size),
         bt_check(a.borrow_tracker, prov_extra))

\* An allocation hook that sets up the race detector before the monitor.
adjust_allocation_race_first(m, id, size) ==
    Step(Step(Step(Started,
                   m.data_race_detector, Call("data_race", "new_allocation", id, 0, size), "Ok"),
              m.borrow_tracker, Call("borrow_tracker", "new_allocation", id, 0, size), "Ok"),
         m.weak_memory_emulation, Call("weak_memory", "new_allocation", id, 0, size), "Ok")

\* adjust_allocation, lines 1103-1119: the extra state is made in this order.
adjust_allocation(m, id, size) ==
    Step(Step(Step(Started,
                   m.borrow_tracker, Call("borrow_tracker", "new_allocation", id, 0, size), "Ok"),
              m.data_race_detector, Call("data_race", "new_allocation", id, 0, size), "Ok"),
         m.weak_memory_emulation, Call("weak_memory", "new_allocation", id, 0, size), "Ok")

\* Whether a run made the call `call` to component `to`.
Called(run, to, call) ==
    \E i \in 1..Len(run.calls) : run.calls[i].to = to /\ run.calls[i].call = call

(***************************************************************************)
(* The machine state the memory hooks work on, and the hooks as actions.   *)
(***************************************************************************)
NoProvenanceExtra == [kind |-> "Wildcard", tag |-> 0]

NoHook ==
    [n |-> 0, op |-> "none", id |-> 0, lo |-> 0, hi |-> 0,
     thread |-> 1, res |-> "Ok", calls |-> <<>>, events |-> <<>>,
     unsync_w |-> {}, unsync_r |-> {}]

\* The run goes on: no hook has failed, and the model's budget of hooks is
\* not used up.
Running == hook.res = "Ok" /\ hook.n < MaxHooks

\* MiriMachine::new, lines 631-704, for the fields the memory hooks use.
new_mem_state(config) ==
    [cfg |-> config, allocs |-> <<>>, allocation_spans |-> <<>>,
     alloc_addresses |-> [base_addr |-> <<>>, exposed |-> {}, reuse |-> {},
                          next_base_addr |-> 1],
     threads |-> [active |-> 1],
     clocks |-> [vc |-> [t \in ThreadIds |-> [u \in ThreadIds |-> IF u = t THEN 1 ELSE 0]],
                 lock |-> ZeroClock],
     borrow_tracker |-> [next_ptr_tag |-> 1],
     hook |-> NoHook]
MemInit(configs) ==
    /\ cfg \in configs
    /\ allocs = new_mem_state(cfg).allocs
    /\ allocation_spans = new_mem_state(cfg).allocation_spans
    /\ alloc_addresses = new_mem_state(cfg).alloc_addresses
    /\ threads = new_mem_state(cfg).threads
    /\ clocks = new_mem_state(cfg).clocks
    /\ borrow_tracker = new_mem_state(cfg).borrow_tracker
    /\ hook = new_mem_state(cfg).hook

\* The bytes of allocation a with an access of another thread that does not
\* happen before thread t's current clock.
GhostUnsyncW(a, vc, t) ==
    IF a.data_race.some THEN UnsyncWrites(a.data_race.cells, vc, t, 0, a.size) ELSE {}
GhostUnsyncR(a, vc, t) ==
    IF a.data_race.some THEN UnsyncReads(a.data_race.cells, vc, t, 0, a.size) ELSE {}

\* The allocation's race state after a hook's run: the access is recorded when
\* the race detector was called and reported no race.
AfterRaceCall(a, run, vc, t, lo, hi, is_write) ==
    IF a.data_race.some /\ Called(run, "data_race", IF is_write THEN "write" ELSE "read")
       /\ run.res # "DataRace"
    THEN [a EXCEPT !.data_race.cells = RecordAccess(@, vc, t, lo, hi, is_write)]
    ELSE a

\* The state the memory hooks work on, as one value, and a step to such a
\* value.
MemState ==
    [cfg |-> cfg, allocs |-> allocs, allocation_spans |-> allocation_spans,
     alloc_addresses |-> alloc_addresses, threads |-> threads, clocks |-> clocks,
     borrow_tracker |-> borrow_tracker, hook |-> hook]
Becomes(s) ==
    /\ cfg' = s.cfg
    /\ allocs' = s.allocs
    /\ allocation_spans' = s.allocation_spans
    /\ alloc_addresses' = s.alloc_addresses
    /\ threads' = s.threads
    /\ clocks' = s.clocks
    /\ borrow_tracker' = s.borrow_tracker
    /\ hook' = s.hook
StillRunning(s) == s.hook.res = "Ok" /\ s.hook.n < MaxHooks

\* An engine that hands out the id of a freed allocation again.
reserve_alloc_id_reuse_freed(as) ==
    LET dead == {i \in DOMAIN as : ~as[i].live}
    IN IF dead = {} THEN Len(as) + 1 ELSE CHOOSE i \in dead : \A j \in dead : i <= j

\* The engine's counter of allocation ids: the id of the next allocation.
reserve_alloc_id(as) == Len(as) + 1

\* adjust_allocation, lines 1087-1149, for a fresh allocation of the given
\* kind, size and alignment; the engine numbers allocations consecutively.
can_adjust_allocation(s) ==
    /\ StillRunning(s)
    /\ Len(s.allocs) < MaxAllocId
    /\ s.cfg.borrow_tracker => s.borrow_tracker.next_ptr_tag <= MaxTag
on_adjust_allocation(s, kind, size, align) ==
    LET id == reserve_alloc_id(s.allocs)
        run == adjust_allocation(s.cfg, id, size)
        tag == s.borrow_tracker.next_ptr_tag
    IN [s EXCEPT
          !.allocs = Append(s.allocs,
              [id |-> id, live |-> TRUE, size |-> size, align |-> align, kind |-> kind,
               borrow_tracker |-> IF Called(run, "borrow_tracker", "new_allocation")
                                  THEN bt_new_allocation(tag) ELSE NoBorrowTracker,
               data_race |-> IF Called(run, "data_race", "new_allocation")
                             THEN dr_new_allocation(size) ELSE NoDataRace,
               weak_memory |-> Called(run, "weak_memory", "new_allocation"),
               backtrace |-> ~(may_leak(kind) \/ ~s.cfg.collect_leak_backtraces)]),
          !.borrow_tracker =
              IF Called(run, "borrow_tracker", "new_allocation")
              THEN [s.borrow_tracker EXCEPT !.next_ptr_tag = tag + 1]
              ELSE s.borrow_tracker,
          !.allocation_spans =
              IF kind \in MiriMemoryKind /\ should_save_allocation_span(kind)
              THEN (id :> [allocated |-> s.threads.active, deallocated |-> 0])
                   @@ s.allocation_spans
              ELSE s.allocation_spans,
          !.hook = [NoHook EXCEPT !.n = s.hook.n + 1, !.op = "adjust_allocation", !.id = id,
                       !.hi = size, !.thread = s.threads.active, !.res = run.res,
                       !.calls = run.calls,
                       !.events = Emit(id \in s.cfg.tracked_alloc_ids,
                                       [event |-> "CreatedAlloc", id |-> id, kind |-> kind])]]
AdjustAllocation(kind, size, align) ==
    /\ can_adjust_allocation(MemState)
    /\ Becomes(on_adjust_allocation(MemState, kind, size, align))
    /\ UNCHANGED nonMemVars

\* before_memory_read, lines 1228-1249.
can_access(s, id, lo, hi) ==
    /\ StillRunning(s)
    /\ id \in 1..Len(s.allocs) /\ s.allocs[id].live
    /\ 0 <= lo /\ lo < hi /\ hi <= s.allocs[id].size
on_memory_read(s, id, prov_extra, lo, hi) ==
    LET a == s.allocs[id]
        t == s.threads.active
        run == before_memory_read(s.cfg, s.clocks.vc, t, a, id, prov_extra, lo, hi)
    IN [s EXCEPT
          !.allocs[id] = AfterRaceCall(a, run, s.clocks.vc, t, lo, hi, FALSE),
          !.hook = [n |-> s.hook.n + 1, op |-> "read", id |-> id, lo |-> lo, hi |-> hi,
                    thread |-> t,
                    res |-> run.res, calls |-> run.calls,
                    events |-> Emit(s.cfg.track_alloc_accesses /\ id \in s.cfg.tracked_alloc_ids,
                                    [event |-> "AccessedAlloc", id |-> id, kind |-> "Read"]),
                    unsync_w |-> GhostUnsyncW(a, s.clocks.vc, t),
                    unsync_r |-> GhostUnsyncR(a, s.clocks.vc, t)]]
MemoryRead(id, prov_extra, lo, hi) ==
    /\ can_access(MemState, id, lo, hi)
    /\ Becomes(on_memory_read(MemState, id, prov_extra, lo, hi))
    /\ UNCHANGED nonMemVars

\* before_memory_write, lines 1252-1273.
on_memory_write(s, id, prov_extra, lo, hi) ==
    LET a == s.allocs[id]
        t == s.threads.active
        run == before_memory_write(s.cfg, s.clocks.vc, t, a, id, prov_extra, lo, hi)
    IN [s EXCEPT
          !.allocs[id] = AfterRaceCall(a, run, s.clocks.vc, t, lo, hi, TRUE),
          !.hook = [n |-> s.hook.n + 1, op |-> "write", id |-> id, lo |-> lo, hi |-> hi,
                    thread |-> t,
                    res |-> run.res, calls |-> run.calls,
                    events |-> Emit(s.cfg.track_alloc_accesses /\ id \in s.cfg.tracked_alloc_ids,
                                    [event |-> "AccessedAlloc", id |-> id, kind |-> "Write"]),
                    unsync_w |-> GhostUnsyncW(a, s.clocks.vc, t),
                    unsync_r |-> GhostUnsyncR(a, s.clocks.vc, t)]]
MemoryWrite(id, prov_extra, lo, hi) ==
    /\ can_access(MemState, id, lo, hi)
    /\ Becomes(on_memory_write(MemState, id, prov_extra, lo, hi))
    /\ UNCHANGED nonMemVars

\* after_local_allocated, lines 1492-1504, called by the engine for the
\* fresh allocation of a local of the current frame: its span is recorded.
AfterLocalAllocated(id) ==
    /\ Running
    /\ id \in 1..Len(allocs) /\ allocs[id].live /\ allocs[id].kind = "Stack"
    /\ id \notin DOMAIN allocation_spans
    /\ allocation_spans' =
           (id :> [allocated |-> threads.active, deallocated |-> 0]) @@ allocation_spans
    /\ UNCHANGED <<cfg, allocs, alloc_addresses, threads, clocks, borrow_tracker, hook,
                   nonMemVars>>

\* alloc_addresses::free_alloc_id: the address range of an allocation that was
\* given an address goes to the pool of reusable ranges.
free_alloc_id(aa, id, size) ==
    IF id \in DOMAIN aa.base_addr
    THEN [aa EXCEPT !.exposed = @ \ {id}, !.reuse = @ \cup {<<aa.base_addr[id], size>>}]
    ELSE aa

\* A deallocation hook that does its bookkeeping whatever the checks said.
after_checks_always(run, spans, aa, id, size, t) ==
    [spans |-> IF id \in DOMAIN spans THEN [spans EXCEPT ![id].deallocated = t] ELSE spans,
     aa |-> free_alloc_id(aa, id, size)]

\* before_memory_deallocation, lines 1300-1310: what follows the two checks,
\* reached only when neither returned an error. The span of the deallocation
\* is recorded if the allocation has spans, and the address range returned.
after_checks(run, spans, aa, id, size, t) ==
    IF run.res = "Ok"
    THEN [spans |-> IF id \in DOMAIN spans
                    THEN [spans EXCEPT ![id].deallocated = t] ELSE spans,
          aa |-> free_alloc_id(aa, id, size)]
    ELSE [spans |-> spans, aa |-> aa]

\* before_memory_deallocation, lines 1276-1311; after a successful hook the
\* engine removes the allocation from the memory map.
can_deallocate(s, id) ==
    /\ StillRunning(s)
    /\ id \in 1..Len(s.allocs) /\ s.allocs[id].live
on_memory_deallocation(s, id, prov_extra) ==
    LET a == s.allocs[id]
        t == s.threads.active
        run == before_memory_deallocation(s.cfg, s.clocks.vc, t, a, id, prov_extra, a.size)
        after == after_checks(run, s.allocation_spans, s.alloc_addresses, id, a.size, t)
    IN [s EXCEPT
          !.allocs[id] = IF run.res = "Ok" THEN DeadAlloc(a)
                         ELSE AfterRaceCall(a, run, s.clocks.vc, t, 0, a.size, TRUE),
          !.allocation_spans = after.spans,
          !.alloc_addresses = after.aa,
          !.hook = [n |-> s.hook.n + 1, op |-> "deallocate", id |-> id, lo |-> 0,
                    hi |-> a.size, thread |-> t,
                    res |-> run.res, calls |-> run.calls,
                    events |-> Emit(id \in s.cfg.tracked_alloc_ids,
                                    [event |-> "FreedAlloc", id |-> id, kind |-> a.kind]),
                    unsync_w |-> GhostUnsyncW(a, s.clocks.vc, t),
                    unsync_r |-> GhostUnsyncR(a, s.clocks.vc, t)]]
Deallocate(id, prov_extra) ==
    /\ can_deallocate(MemState, id)
    /\ Becomes(on_memory_deallocation(MemState, id, prov_extra))
    /\ UNCHANGED nonMemVars

\* A lock release by the active thread: the lock takes the thread's clock and
\* the thread moves on to its next epoch.
Release ==
    /\ hook.res = "Ok"
    /\ cfg.data_race_detector
    /\ LET t == threads.active
       IN /\ clocks.vc[t][t] < MaxClock
          /\ clocks' = [vc |-> [clocks.vc EXCEPT ![t][t] = @ + 1],
                        lock |-> ClockJoin(clocks.lock, clocks.vc[t])]
    /\ UNCHANGED <<cfg, allocs, allocation_spans, alloc_addresses, threads,
                   borrow_tracker, hook, nonMemVars>>

\* A lock acquire by the active thread: its clock takes in the lock's.
Acquire ==
    /\ hook.res = "Ok"
    /\ cfg.data_race_detector
    /\ LET t == threads.active
       IN /\ ClockJoin(clocks.vc[t], clocks.lock) # clocks.vc[t]
          /\ clocks' = [clocks EXCEPT !.vc[t] = ClockJoin(@, clocks.lock)]
    /\ UNCHANGED <<cfg, allocs, allocation_spans, alloc_addresses, threads,
                   borrow_tracker, hook, nonMemVars>>

\* The scheduler hands control to another thread.
SwitchThread(t) ==
    /\ hook.res = "Ok"
    /\ t # threads.active
    /\ threads' = [threads EXCEPT !.active = t]
    /\ UNCHANGED <<cfg, allocs, allocation_spans, alloc_addresses, clocks,
                   borrow_tracker, hook, nonMemVars>>

(***************************************************************************)
(* Frames, the random generator and the constant-evaluation cache          *)
(* (machine.rs 56-82, 1360-1390, 1434-1531).                               *)
(***************************************************************************)
\* The constants of the interpreted program (mir::Const).
Consts == {"K1", "K2"}

\* Outputs of the generator: 1 and 17 give the same salt.
RngValues == {0, 1, 17}
RngStreams == [1..MaxDraws -> RngValues]

\* rng.gen::<usize>(): the next output of the stream; the stream moves on.
gen(r) == r.stream[r.pos + 1]
advance(r) == [r EXCEPT !.pos = @ + 1]

\* The value of a constant: which evaluation made it, and the tag of the
\* pointer it holds (0: it holds none).
NoValue == [n |-> 0, tag |-> 0]

\* A frame whose salt is the raw output of the generator.
init_frame_extra_raw_salt(m, bt_on, r, is_user_relevant) ==
    [borrow_tracker |-> bt_on, catch_unwind |-> FALSE, timing |-> m.profiler,
     is_user_relevant |-> is_user_relevant, salt |-> gen(r)]

\* A frame whose salt is the number of frames made before it: slots handed
\* out in cyclic order.
init_frame_extra_round_robin(m, bt_on, r, is_user_relevant) ==
    [borrow_tracker |-> bt_on, catch_unwind |-> FALSE, timing |-> m.profiler,
     is_user_relevant |-> is_user_relevant, salt |-> r.pos % ADDRS_PER_CONST]

\* A frame for which no timing record is started.
init_frame_extra_no_timing(m, bt_on, r, is_user_relevant) ==
    [borrow_tracker |-> bt_on, catch_unwind |-> FALSE, timing |-> FALSE,
     is_user_relevant |-> is_user_relevant, salt |-> gen(r) % ADDRS_PER_CONST]

\* init_frame_extra, lines 1360-1390: the FrameExtra of a new frame.
init_frame_extra(m, bt_on, r, is_user_relevant) ==
    [borrow_tracker |-> bt_on, catch_unwind |-> FALSE, timing |-> m.profiler,
     is_user_relevant |-> is_user_relevant, salt |-> gen(r) % ADDRS_PER_CONST]

\* Thread::recompute_top_user_relevant_frame: the index of the topmost
\* user-relevant frame, -1 if there is none.
recompute_top_user_relevant_frame(stack) ==
    LET idx == {i \in 1..Len(stack) : stack[i].is_user_relevant}
    IN IF idx = {} THEN -1 ELSE (CHOOSE i \in idx : \A j \in idx : j <= i) - 1

\* A cache that evaluates on every call and overwrites what it stored.
eval_mir_constant_no_lookup(cache, val, salt, eval_result) ==
    IF eval_result.ok
    THEN [res |-> "Ok", value |-> eval_result.value, invoked |-> 1,
          cache |-> [k \in DOMAIN cache \cup {<<val, salt>>} |->
                        IF k = <<val, salt>> THEN eval_result.value ELSE cache[k]]]
    ELSE [res |-> "Err", value |-> NoValue, invoked |-> 1, cache |-> cache]

\* A cache that returns what is stored and never stores.
eval_mir_constant_no_store(cache, val, salt, eval_result) ==
    IF <<val, salt>> \in DOMAIN cache
    THEN [res |-> "Ok", value |-> cache[<<val, salt>>], invoked |-> 0, cache |-> cache]
    ELSE IF eval_result.ok
    THEN [res |-> "Ok", value |-> eval_result.value, invoked |-> 1, cache |-> cache]
    ELSE [res |-> "Err", value |-> NoValue, invoked |-> 1, cache |-> cache]

\* A cache that keeps what a failed evaluation left behind.
eval_mir_constant_store_failed(cache, val, salt, eval_result) ==
    IF <<val, salt>> \in DOMAIN cache
    THEN [res |-> "Ok", value |-> cache[<<val, salt>>], invoked |-> 0, cache |-> cache]
    ELSE [res |-> IF eval_result.ok THEN "Ok" ELSE "Err",
          value |-> IF eval_result.ok THEN eval_result.value ELSE NoValue, invoked |-> 1,
          cache |-> [k \in DOMAIN cache \cup {<<val, salt>>} |->
                        IF k = <<val, salt>> THEN eval_result.value ELSE cache[k]]]

\* eval_mir_constant, lines 1521-1531: the entry for (val, salt) is returned
\* if occupied; if vacant, eval runs and its result is inserted unless it failed.
eval_mir_constant(cache, val, salt, eval_result) ==
    IF <<val, salt>> \in DOMAIN cache
    THEN [res |-> "Ok", value |-> cache[<<val, salt>>], invoked |-> 0, cache |-> cache]
    ELSE IF eval_result.ok
    THEN [res |-> "Ok", value |-> eval_result.value, invoked |-> 1,
          cache |-> [k \in DOMAIN cache \cup {<<val, salt>>} |->
                        IF k = <<val, salt>> THEN eval_result.value ELSE cache[k]]]
    ELSE [res |-> "Err", value |-> NoValue, invoked |-> 1, cache |-> cache]

\* The results after which the run has ended.
Ended == {"panic", "terminated"}

NoTrace ==
    [op |-> "none", res |-> "Ok", const |-> "", salt |-> 0, hit |-> FALSE,
     value |-> NoValue, invoked |-> 0, n_evals |-> 0, ok_evals |-> <<>>,
     frames |-> <<>>, seen |-> <<>>, same |-> TRUE,
     ptr |-> [provenance |-> None, offset |-> 0],
     ptr_after |-> [provenance |-> None, offset |-> 0],
     resolved |-> [some |-> FALSE, alloc_id |-> 0, offset |-> 0,
                   extra |-> [kind |-> "Wildcard", tag |-> 0]],
     prev_id |-> 0, exposed_at |-> <<>>,
     link_name |-> "", decl |-> [size |-> 0, align |-> 0], registered |-> FALSE,
     shim |-> [size |-> 0, align |-> 0], ret |-> [provenance |-> None, offset |-> 0],
     reported |-> FALSE, gc |-> FALSE, gc_passes |-> 0, gc_lost |-> {},
     calls |-> 0, order |-> <<>>, hooks |-> 0, monitor |-> <<>>,
     terminations |-> 0, released |-> 0,
     call |-> [is_foreign_item |-> FALSE, link_name |-> "", abi |-> "", nargs |-> 0,
               engine_ok |-> TRUE, dest |-> "uninit"],
     found |-> [route |-> "none", inner |-> "none", jumped |-> FALSE, res |-> "Ok"],
     dest |-> "uninit", nested |-> "",
     protect |-> [log |-> <<>>,
                  written |-> [some |-> FALSE, place |-> [provenance |-> None, offset |-> 0],
                               bytes |-> "kept"]]]

\* trace.frames lists the frames made so far: the generator output that made
\* the salt, and the salt. trace.seen maps (thread, depth, constant) of a
\* frame on a stack to the value the constant first had in it; trace.same
\* tells whether the last evaluation returned that value again.

\* How often eval succeeded for a key so far.
OkEvals(key) == IF key \in DOMAIN trace.ok_evals THEN trace.ok_evals[key] ELSE 0

\* The machine fields that hold pointer values, apart from the threads'
\* frames, the memory and the constant cache.
RootFields ==
    {"tls", "env_vars", "dirs", "fds", "data_race", "borrow_tracker", "alloc_addresses",
     "main_fn_ret_place", "argc", "argv", "cmd_line", "extern_statics", "threads"}

\* MiriMachine::new, lines 631-704, for the fields of this section.
MachInit(machines, streams) ==
    /\ stacks = [t \in ThreadIds |-> [stack |-> <<>>, top_user_relevant_frame |-> -1]]
    /\ rng \in [stream : streams, pos : {0}]
    /\ const_cache = <<>>
    /\ machine \in machines
    /\ roots = [f \in RootFields \cup {"memory"} |-> {}]
    /\ trace = NoTrace

\* A push that leaves the thread's record of its user-relevant frames alone.
after_stack_push_keep(stack, top) == top

\* after_stack_push, lines 1434-1443: the thread's top user-relevant frame
\* after the push that made stack, when it was top before.
after_stack_push(stack, top) ==
    IF stack[Len(stack)].is_user_relevant THEN Len(stack) - 1 ELSE top

\* The engine pushes a frame: init_frame_extra, the push, after_stack_push
\* (lines 1434-1443).
PushFrame(is_user_relevant) ==
    /\ hook.res = "Ok" /\ trace.res \notin Ended
    /\ rng.pos < MaxDraws
    /\ LET t == threads.active
           th == stacks[t]
           extra == init_frame_extra(machine, cfg.borrow_tracker, rng, is_user_relevant)
           stack == Append(th.stack, extra)
       IN /\ Len(th.stack) < MaxFrames
          /\ stacks' = [stacks EXCEPT ![t] =
                 [stack |-> stack,
                  top_user_relevant_frame |->
                      after_stack_push(stack, th.top_user_relevant_frame)]]
          /\ rng' = advance(rng)
          /\ trace' = [trace EXCEPT !.op = "push", !.res = "Ok", !.salt = extra.salt,
                          !.frames = Append(@, [draw |-> rng.pos + 1, salt |-> extra.salt])]
    /\ UNCHANGED <<const_cache, machine, roots, nonMachVars>>

\* The engine pops the top frame: the pop and after_stack_pop (lines
\* 1461-1490); the timing record is unwrapped when the profiler is there.
PopFrame ==
    /\ hook.res = "Ok" /\ trace.res \notin Ended
    /\ LET t == threads.active
           th == stacks[t]
       IN /\ th.stack # <<>>
          /\ LET frame == th.stack[Len(th.stack)]
                 stack == SubSeq(th.stack, 1, Len(th.stack) - 1)
             IN /\ stacks' = [stacks EXCEPT ![t] =
                       [stack |-> stack,
                        top_user_relevant_frame |->
                            IF frame.is_user_relevant
                            THEN recompute_top_user_relevant_frame(stack)
                            ELSE th.top_user_relevant_frame]]
                /\ trace' = [trace EXCEPT !.op = "pop", !.salt = frame.salt,
                                !.res = IF machine.profiler /\ ~frame.timing
                                        THEN "panic" ELSE "Ok",
                                !.seen = [k \in {j \in DOMAIN @ : ~(j[1] = t /\ j[2] = Len(th.stack))}
                                             |-> @[k]]]
    /\ UNCHANGED <<rng, const_cache, machine, roots, nonMachVars>>

\* eval_mir_constant, lines 1506-1531, called for constant val while a frame
\* is on the active thread's stack; the evaluation function, when invoked,
\* succeeds with a fresh value holding a pointer of tag ptr_tag, which the
\* monitor has granted, or fails.
EvalConst(val, ok, ptr_tag) ==
    /\ hook.res = "Ok" /\ trace.res \notin Ended
    /\ trace.n_evals < MaxEvals
    /\ ptr_tag < borrow_tracker.next_ptr_tag
    /\ LET th == stacks[threads.active]
       IN /\ th.stack # <<>>
          /\ LET salt == th.stack[Len(th.stack)].salt
                 key == <<val, salt>>
                 fresh == [n |-> trace.n_evals + 1, tag |-> ptr_tag]
                 out == eval_mir_constant(const_cache, val, salt, [ok |-> ok, value |-> fresh])
                 here == <<threads.active, Len(th.stack), val>>
             IN /\ const_cache' = out.cache
                /\ trace' = [trace EXCEPT
                       !.op = "eval_const", !.res = out.res, !.const = val, !.salt = salt,
                       !.hit = key \in DOMAIN const_cache,
                       !.value = out.value, !.invoked = out.invoked,
                       !.n_evals = @ + out.invoked,
                       !.ok_evals = IF out.invoked = 1 /\ out.res = "Ok"
                                    THEN [k \in DOMAIN @ \cup {key} |-> OkEvals(k) + (IF k = key THEN 1 ELSE 0)]
                                    ELSE @,
                       !.seen = IF out.res = "Ok" /\ here \notin DOMAIN @
                                THEN [k \in DOMAIN @ \cup {here} |->
                                         IF k = here THEN out.value ELSE @[k]]
                                ELSE @,
                       !.same = out.res = "Ok" /\ here \in DOMAIN trace.seen
                                    => out.value = trace.seen[here]]
    /\ UNCHANGED <<stacks, rng, machine, roots, nonMachVars>>

(***************************************************************************)
(* The step hook and the garbage collection of tags (machine.rs 767-835,   *)
(* 1404-1432).                                                             *)
(***************************************************************************)
\* VisitProvenance for MiriMachine, lines 819-833, on the tags the fields
\* hold: the fields the visitor passes on; it ignores all others (lines
\* 783-816), const_cache among them.
visit_provenance(fields) ==
    fields["threads"] \cup fields["tls"] \cup fields["env_vars"] \cup fields["dirs"]
        \cup fields["fds"] \cup fields["data_race"] \cup fields["borrow_tracker"]
        \cup fields["alloc_addresses"] \cup fields["main_fn_ret_place"]
        \cup fields["argc"] \cup fields["argv"] \cup fields["cmd_line"]
        \cup fields["extern_statics"]

\* The tags of the pointers held by the values in the constant cache.
ConstCacheTags == {const_cache[k].tag : k \in DOMAIN const_cache} \ {0}

\* The tags of all pointer values stored in the machine state and in memory.
HeldTags == UNION {roots[f] : f \in DOMAIN roots} \cup ConstCacheTags

\* A garbage collection pass: the tags found by the machine's visitor and in
\* the memory are live; the bookkeeping of every other tag is discarded.
run_provenance_gc(as, live) ==
    [i \in DOMAIN as |->
        IF as[i].borrow_tracker.some
        THEN [as[i] EXCEPT !.borrow_tracker.tags = @ \cap live]
        ELSE as[i]]

\* The tags whose bookkeeping the monitor holds.
TrackedTags(as) == UNION {as[i].borrow_tracker.tags : i \in DOMAIN as}

\* Rng::gen_bool for a probability in percent.
gen_bool(r, percent) == gen(r) % 100 < percent

\* The thread the scheduler turns to when the active thread yields.
NextThread(t) == (t % NumThreads) + 1

\* A pointer value with a tag the monitor has granted is stored in a field.
StorePointer(f, tag) ==
    /\ hook.res = "Ok" /\ trace.res \notin Ended
    /\ tag < borrow_tracker.next_ptr_tag
    /\ tag \notin roots[f]
    /\ Cardinality(UNION {roots[g] : g \in DOMAIN roots}) < MaxPointers
    /\ \A g \in DOMAIN roots : tag \notin roots[g]
    /\ roots' = [roots EXCEPT ![f] = @ \cup {tag}]
    /\ trace' = [trace EXCEPT !.op = "store", !.res = "Ok"]
    /\ UNCHANGED <<stacks, rng, const_cache, machine, nonMachVars>>

\* A stored pointer value is dropped or overwritten.
DropPointer(f, tag) ==
    /\ hook.res = "Ok" /\ trace.res \notin Ended
    /\ tag \in roots[f]
    /\ roots' = [roots EXCEPT ![f] = @ \ {tag}]
    /\ trace' = [trace EXCEPT !.op = "drop", !.res = "Ok"]
    /\ UNCHANGED <<stacks, rng, const_cache, machine, nonMachVars>>

\* A collection only once more steps than the interval have passed.
gc_due_after_interval(m, since_gc) == m.gc_interval > 0 /\ since_gc > m.gc_interval

\* The condition of line 1420: a collection is due.
gc_due(m, since_gc) == m.gc_interval > 0 /\ since_gc >= m.gc_interval

\* The state the step hook works on, s: the machine's counters and clock, the
\* memory, the threads, the generator, the tags the visitor finds live; with
\* the outcome and s.log, which lists what the hook did, each entry with what
\* it found: the active thread, and how far the block counter, the clock and
\* the generator had got since the hook was called (s.at).
Entry(what, s) ==
    [what |-> what, active |-> s.threads.active,
     counted |-> s.machine.basic_block_count - s.at.block,
     ticked |-> s.machine.clock - s.at.clock,
     drawn |-> s.rng.pos - s.at.pos]
Logged(what, s) == [s EXCEPT !.log = Append(@, Entry(what, s))]

\* Lines 1405-1406: both counters go up by one.
count_block(s) ==
    [Logged("count", s) EXCEPT !.machine.basic_block_count = @ + 1,
                               !.machine.since_gc = @ + 1]

\* Lines 1408-1414: the progress report, if one is asked for and due; the
\* remainder by an interval of 0 panics.
report_progress(s) ==
    IF s.machine.report_progress < 0 THEN s
    ELSE IF s.machine.report_progress = 0 THEN [s EXCEPT !.res = "panic"]
    ELSE IF s.machine.basic_block_count % s.machine.report_progress = 0
    THEN Logged("report", s)
    ELSE s

\* Lines 1420-1423: the collection, if it is due.
provenance_gc(s) ==
    IF gc_due(s.machine, s.machine.since_gc)
    THEN [Logged("gc", s) EXCEPT !.machine.since_gc = 0,
                                 !.allocs = run_provenance_gc(@, s.live)]
    ELSE s

\* Line 1426, maybe_preempt_active_thread: with a positive preemption rate
\* the generator decides whether the active thread yields.
maybe_preempt_active_thread(s) ==
    IF s.machine.preemption_rate > 0
    THEN [Logged("preempt", s) EXCEPT
              !.rng = advance(@),
              !.threads.active = IF gen_bool(s.rng, s.machine.preemption_rate)
                                 THEN NextThread(@) ELSE @]
    ELSE Logged("preempt", s)

\* Line 1429: the clock ticks.
clock_tick(s) == [Logged("tick", s) EXCEPT !.machine.clock = @ + 1]

\* A step hook that turns to the scheduler before it collects.
before_terminator_preempt_first(s) ==
    LET counted == report_progress(count_block(s))
    IN IF counted.res = "panic" THEN counted
       ELSE clock_tick(provenance_gc(maybe_preempt_active_thread(counted)))

\* A step hook that lets the clock tick on every other step only.
before_terminator_tick_every_other(s) ==
    LET counted == report_progress(count_block(s))
        passed == maybe_preempt_active_thread(provenance_gc(counted))
    IN IF counted.res = "panic" THEN counted
       ELSE IF counted.machine.basic_block_count % 2 = 0 THEN passed
       ELSE clock_tick(passed)

\* before_terminator, lines 1404-1432: the counters, the progress report, the
\* garbage collection when it is due, the preemption point, the clock.
before_terminator(s) ==
    LET counted == report_progress(count_block(s))
    IN IF counted.res = "panic" THEN counted
       ELSE clock_tick(maybe_preempt_active_thread(provenance_gc(counted)))

\* The engine calls before_terminator at the end of a basic block.
BeforeTerminator ==
    /\ hook.res = "Ok" /\ trace.res \notin Ended
    /\ machine.basic_block_count < MaxSteps
    /\ machine.preemption_rate > 0 => rng.pos < MaxDraws
    /\ LET out == before_terminator(
                      [machine |-> machine, allocs |-> allocs, threads |-> threads,
                       rng |-> rng, live |-> visit_provenance(roots) \cup roots["memory"],
                       at |-> [block |-> machine.basic_block_count,
                               clock |-> machine.clock, pos |-> rng.pos],
                       res |-> "Ok", log |-> <<>>])
           did == {out.log[i].what : i \in DOMAIN out.log}
       IN /\ machine' = out.machine
          /\ allocs' = out.allocs
          /\ rng' = out.rng
          /\ threads' = out.threads
          /\ trace' = IF out.res = "panic"
                      THEN [trace EXCEPT !.op = "before_terminator", !.res = "panic",
                                         !.calls = @ + 1, !.order = out.log]
                      ELSE [trace EXCEPT
                               !.op = "before_terminator", !.res = "Ok",
                               !.calls = @ + 1, !.order = out.log,
                               !.reported = "report" \in did,
                               !.gc = "gc" \in did,
                               !.gc_passes = IF "gc" \in did THEN @ + 1 ELSE @,
                               !.gc_lost = IF "gc" \in did
                                           THEN (TrackedTags(allocs) \ TrackedTags(out.allocs))
                                                    \cap HeldTags
                                           ELSE {}]
    /\ UNCHANGED <<cfg, allocation_spans, alloc_addresses, clocks, borrow_tracker, hook,
                   stacks, const_cache, roots, provVars, runs>>

(***************************************************************************)
(* Pointers, exposure and resolution (machine.rs 1178-1225), and the       *)
(* assignment of addresses behind them.                                    *)
(***************************************************************************)
\* Pointer<Provenance>: for Concrete provenance the offset is relative to the
\* allocation, for Wildcard it is the absolute address.
Ptr(provenance, offset) == [provenance |-> provenance, offset |-> offset]

\* The largest address the model hands out, plus one.
AddrLimit == MaxAllocId * MaxSize + 1

Pointers ==
    {Ptr(Concrete(a, t), o) : a \in AllocIds, t \in BorTags, o \in 0..(MaxSize - 1)}
        \cup {Ptr(Wildcard, o) : o \in 0..AddrLimit}

\* What a resolution of a pointer yields.
NoAlloc == [some |-> FALSE, alloc_id |-> 0, offset |-> 0, extra |-> [kind |-> "Wildcard", tag |-> 0]]
SomeAlloc(alloc_id, offset, extra) ==
    [some |-> TRUE, alloc_id |-> alloc_id, offset |-> offset, extra |-> extra]

\* The base address of an allocation that has none yet: a freed range of
\* sufficient size if there is one and the generator's output is odd,
\* otherwise a fresh range. The generator is consulted whenever a freed
\* range fits.
addr_from_alloc_id(aa, r, id, size) ==
    LET fits == {p \in aa.reuse : p[2] >= size}
        pick == CHOOSE p \in fits : \A q \in fits : p[1] <= q[1]
        with(base) == [k \in DOMAIN aa.base_addr \cup {id} |->
                          IF k = id THEN base ELSE aa.base_addr[k]]
    IN IF id \in DOMAIN aa.base_addr THEN [aa |-> aa, rng |-> r]
       ELSE IF fits # {} /\ gen(r) % 2 = 1
       THEN [aa |-> [aa EXCEPT !.base_addr = with(pick[1]), !.reuse = @ \ {pick}],
             rng |-> advance(r)]
       ELSE [aa |-> [aa EXCEPT !.base_addr = with(aa.next_base_addr),
                               !.next_base_addr = @ + size],
             rng |-> IF fits # {} THEN advance(r) ELSE r]

\* The engine's expose_ptr: a live allocation gets its address and joins the
\* exposed allocations; for a dead one nothing happens.
ecx_expose_ptr(aa, as, r, alloc_id) ==
    IF alloc_id \in DOMAIN as /\ as[alloc_id].live
    THEN LET out == addr_from_alloc_id(aa, r, alloc_id, as[alloc_id].size)
         IN [aa |-> [out.aa EXCEPT !.exposed = @ \cup {alloc_id}], rng |-> out.rng]
    ELSE [aa |-> aa, rng |-> r]

\* expose_ptr, lines 1190-1202: a Concrete pointer exposes its allocation, a
\* Wildcard pointer exposes nothing.
expose_ptr(aa, as, r, ptr) ==
    IF ptr.provenance.kind = "Concrete"
    THEN ecx_expose_ptr(aa, as, r, ptr.provenance.alloc_id)
    ELSE [aa |-> aa, rng |-> r]

\* The exposed live allocations whose address range contains addr.
ExposedAt(aa, as, addr) ==
    {y \in aa.exposed : /\ y \in DOMAIN as /\ as[y].live
                        /\ aa.base_addr[y] <= addr
                        /\ addr < aa.base_addr[y] + as[y].size}

\* The engine's ptr_get_alloc: a Concrete pointer names its allocation; a
\* Wildcard pointer is looked up among the exposed allocations.
ecx_ptr_get_alloc(aa, as, ptr) ==
    IF ptr.provenance.kind = "Concrete"
    THEN [some |-> TRUE, alloc_id |-> ptr.provenance.alloc_id, offset |-> ptr.offset]
    ELSE LET found == ExposedAt(aa, as, ptr.offset)
         IN IF found = {} THEN [some |-> FALSE, alloc_id |-> 0, offset |-> 0]
            ELSE LET y == CHOOSE y \in found : TRUE
                 IN [some |-> TRUE, alloc_id |-> y, offset |-> ptr.offset - aa.base_addr[y]]

\* A resolution that reports the wildcard access under tag 0 as Concrete.
ptr_get_alloc_concrete_extra(aa, as, ptr) ==
    LET rel == ecx_ptr_get_alloc(aa, as, ptr)
    IN [res |-> IF rel.some
                THEN SomeAlloc(rel.alloc_id, rel.offset,
                               [kind |-> "Concrete", tag |-> ptr.provenance.tag])
                ELSE NoAlloc,
        ptr |-> ptr, aa |-> aa]

\* A resolution after which a Wildcard pointer is the pointer it was
\* resolved to.
ptr_get_alloc_persist(aa, as, ptr) ==
    LET rel == ecx_ptr_get_alloc(aa, as, ptr)
    IN [res |-> IF rel.some
                THEN SomeAlloc(rel.alloc_id, rel.offset,
                               IF ptr.provenance.kind = "Concrete"
                               THEN [kind |-> "Concrete", tag |-> ptr.provenance.tag]
                               ELSE [kind |-> "Wildcard", tag |-> 0])
                ELSE NoAlloc,
        ptr |-> IF rel.some THEN Ptr(Concrete(rel.alloc_id, ptr.provenance.tag), rel.offset)
                ELSE ptr,
        aa |-> aa]

\* ptr_get_alloc, lines 1212-1225: the engine's answer with the pointer's tag
\* as ProvenanceExtra; the pointer and the machine are only read.
ptr_get_alloc(aa, as, ptr) ==
    LET rel == ecx_ptr_get_alloc(aa, as, ptr)
    IN [res |-> IF rel.some
                THEN SomeAlloc(rel.alloc_id, rel.offset,
                               IF ptr.provenance.kind = "Concrete"
                               THEN [kind |-> "Concrete", tag |-> ptr.provenance.tag]
                               ELSE [kind |-> "Wildcard", tag |-> 0])
                ELSE NoAlloc,
        ptr |-> ptr, aa |-> aa]

\* A pointer-to-integer cast of ptr.
ExposePtr(ptr) ==
    /\ hook.res = "Ok" /\ trace.res \notin Ended
    /\ rng.pos < MaxDraws
    /\ ptr.provenance.kind = "Concrete" => ptr.provenance.alloc_id \in DOMAIN allocs
    /\ LET out == expose_ptr(alloc_addresses, allocs, rng, ptr)
       IN /\ alloc_addresses' = out.aa
          /\ rng' = out.rng
          /\ trace' = [trace EXCEPT !.op = "expose_ptr", !.res = "Ok"]
    /\ UNCHANGED <<cfg, allocs, allocation_spans, threads, clocks, borrow_tracker, hook,
                   stacks, const_cache, machine, roots, provVars, runs>>

\* A use of ptr for a memory access: the pointer is resolved. trace.prev_id
\* is the allocation the same pointer was resolved to by the resolution
\* before, if that was a resolution of the same pointer; trace.exposed_at
\* maps the exposed live allocations that contain the pointer's address at
\* the time of the call to their base addresses.
PtrGetAlloc(ptr) ==
    /\ hook.res = "Ok" /\ trace.res \notin Ended
    /\ ptr.provenance.kind = "Concrete" =>
          /\ ptr.provenance.alloc_id \in DOMAIN allocs
          /\ ptr.offset < allocs[ptr.provenance.alloc_id].size
    /\ LET out == ptr_get_alloc(alloc_addresses, allocs, ptr)
       IN /\ alloc_addresses' = out.aa
          /\ trace' = [trace EXCEPT
                 !.op = "ptr_get_alloc", !.res = "Ok",
                 !.ptr = ptr, !.ptr_after = out.ptr, !.resolved = out.res,
                 !.prev_id = IF ptr = trace.ptr THEN trace.resolved.alloc_id ELSE 0,
                 !.exposed_at = [y \in ExposedAt(alloc_addresses, allocs, ptr.offset) |->
                                    alloc_addresses.base_addr[y]]]
    /\ UNCHANGED <<cfg, allocs, allocation_spans, threads, clocks, borrow_tracker, hook,
                   stacks, rng, const_cache, machine, roots, provVars, runs>>

(***************************************************************************)
(* Extern statics (machine.rs 718-726, 1052-1085).                         *)
(***************************************************************************)
\* Link names of extern statics, and the alignments of allocations.
LinkNames == {"environ", "__rust_no_alloc_shim_is_unstable"}
Aligns == {1, 2}

\* The engine's get_alloc_info: size and alignment of an allocation.
get_alloc_info(as, alloc_id) == [size |-> as[alloc_id].size, align |-> as[alloc_id].align]

\* A registration that replaces the entry of a name already present.
add_extern_static_overwrite(statics, name, ptr) ==
    [res |-> "Ok",
     statics |-> [n \in DOMAIN statics \cup {name} |-> IF n = name THEN ptr ELSE statics[n]]]

\* add_extern_static, lines 718-726: try_insert(name, ptr).unwrap().
add_extern_static(statics, name, ptr) ==
    IF name \in DOMAIN statics
    THEN [res |-> "panic", statics |-> statics]
    ELSE [res |-> "Ok",
          statics |-> [n \in DOMAIN statics \cup {name} |->
                          IF n = name THEN ptr ELSE statics[n]]]

\* A lookup that compares the sizes only.
extern_static_base_pointer_size_only(statics, as, link_name, decl) ==
    IF link_name \in DOMAIN statics
    THEN LET ptr == statics[link_name]
         IN IF ptr.provenance.kind # "Concrete"
            THEN [res |-> "panic", ptr |-> Ptr(None, 0), statics |-> statics]
            ELSE IF decl.size # get_alloc_info(as, ptr.provenance.alloc_id).size
            THEN [res |-> "Unsupported", ptr |-> Ptr(None, 0), statics |-> statics]
            ELSE [res |-> "Ok", ptr |-> ptr, statics |-> statics]
    ELSE [res |-> "Unsupported", ptr |-> Ptr(None, 0), statics |-> statics]

\* extern_static_base_pointer, lines 1052-1085: the pointer registered under
\* the link name, if the declared layout is that of its allocation.
extern_static_base_pointer(statics, as, link_name, decl) ==
    IF link_name \in DOMAIN statics
    THEN LET ptr == statics[link_name]
         IN IF ptr.provenance.kind # "Concrete"
            THEN [res |-> "panic", ptr |-> Ptr(None, 0), statics |-> statics]
            ELSE LET shim == get_alloc_info(as, ptr.provenance.alloc_id)
                 IN IF decl.size # shim.size \/ decl.align # shim.align
                    THEN [res |-> "Unsupported", ptr |-> Ptr(None, 0), statics |-> statics]
                    ELSE [res |-> "Ok", ptr |-> ptr, statics |-> statics]
    ELSE [res |-> "Unsupported", ptr |-> Ptr(None, 0), statics |-> statics]

\* The base pointer of allocation id as the engine makes it: the base tag of
\* the monitor, or the default tag without monitor (lines 1168-1175).
BasePointer(id) ==
    Ptr(Concrete(id, IF allocs[id].borrow_tracker.some
                     THEN CHOOSE t \in allocs[id].borrow_tracker.tags : TRUE ELSE 0), 0)

\* add_extern_static for the freshly made allocation id.
AddExternStatic(name, id) ==
    /\ hook.res = "Ok" /\ trace.res \notin Ended
    /\ id \in DOMAIN allocs /\ allocs[id].live /\ allocs[id].kind = "ExternStatic"
    /\ \A n \in DOMAIN machine.extern_statics :
          machine.extern_statics[n].provenance.alloc_id # id
    /\ LET out == add_extern_static(machine.extern_statics, name, BasePointer(id))
       IN /\ machine' = [machine EXCEPT !.extern_statics = out.statics]
          /\ trace' = [trace EXCEPT !.op = "add_extern_static", !.res = out.res,
                                    !.link_name = name]
    /\ UNCHANGED <<stacks, rng, const_cache, roots, nonMachVars>>

\* extern_static_base_pointer for an extern static declared with the given
\* link name, size and alignment.
ExternStaticBasePointer(link_name, size, align) ==
    /\ hook.res = "Ok" /\ trace.res \notin Ended
    /\ LET statics == machine.extern_statics
           decl == [size |-> size, align |-> align]
           out == extern_static_base_pointer(statics, allocs, link_name, decl)
           registered == link_name \in DOMAIN statics
       IN /\ machine' = [machine EXCEPT !.extern_statics = out.statics]
          /\ trace' = [trace EXCEPT
                 !.op = "extern_static_base_pointer", !.res = out.res,
                 !.link_name = link_name, !.decl = decl, !.ret = out.ptr,
                 !.registered = registered,
                 !.shim = IF registered /\ statics[link_name].provenance.kind = "Concrete"
                          THEN get_alloc_info(allocs, statics[link_name].provenance.alloc_id)
                          ELSE [size |-> 0, align |-> 0]]
    /\ UNCHANGED <<stacks, rng, const_cache, roots, nonMachVars>>

(***************************************************************************)
(* The aliasing monitor behind the hooks on pointer values, places and     *)
(* frames (machine.rs 1151-1176, 1314-1357, 1445-1459).                    *)
(***************************************************************************)
\* The tags that replace the tags of contents when they are retagged: fresh
\* tags from next on, in the order of the old ones.
Retagged(contents, next) ==
    [t \in contents |-> next + Cardinality({u \in contents : u < t})]

\* The monitor grants every new tag in the allocation that holds the old one.
Granted(as, fresh) ==
    [i \in DOMAIN as |->
        [as[i] EXCEPT !.borrow_tracker.tags =
            @ \cup {fresh[t] : t \in DOMAIN fresh \cap @}]]

\* A retag that goes to the monitor whether or not there is one.
retag_ptr_value_always(bt_on, val, next) ==
    [val |-> [val EXCEPT !.provenance.tag = next],
     fresh |-> (val.provenance.tag :> next), monitor |-> <<"retag_ptr_value">>]

\* retag_ptr_value, lines 1314-1324: the monitor's retag of the value, which
\* gives it a fresh tag, or the value itself without monitor.
retag_ptr_value(bt_on, val, next) ==
    IF bt_on
    THEN [val |-> [val EXCEPT !.provenance.tag = next],
          fresh |-> (val.provenance.tag :> next), monitor |-> <<"retag_ptr_value">>]
    ELSE [val |-> val, fresh |-> <<>>, monitor |-> <<>>]

\* retag_place_contents, lines 1327-1336, for a place holding pointers of
\* the given tags.
retag_place_contents(bt_on, contents, next) ==
    IF bt_on
    THEN [contents |-> {Retagged(contents, next)[t] : t \in contents},
          fresh |-> Retagged(contents, next), monitor |-> <<"retag_place_contents">>]
    ELSE [contents |-> contents, fresh |-> <<>>, monitor |-> <<>>]

\* before_stack_pop, lines 1445-1459: the monitor's step on the frame, when
\* there is a monitor.
before_stack_pop(bt_on) == IF bt_on THEN <<"on_stack_pop">> ELSE <<>>

\* The monitor's counter after it has handed out the fresh tags.
AfterTags(bt, fresh) == [bt EXCEPT !.next_ptr_tag = @ + Cardinality(DOMAIN fresh)]

\* retag_ptr_value for a pointer into a live allocation.
RetagPtrValue(val) ==
    /\ hook.res = "Ok" /\ trace.res \notin Ended
    /\ trace.hooks < MaxSteps
    /\ val.provenance.kind = "Concrete"
    /\ val.provenance.alloc_id \in 1..Len(allocs)
    /\ allocs[val.provenance.alloc_id].live
    /\ val.offset < allocs[val.provenance.alloc_id].size
    /\ cfg.borrow_tracker => borrow_tracker.next_ptr_tag <= MaxTag
    /\ LET out == retag_ptr_value(cfg.borrow_tracker, val, borrow_tracker.next_ptr_tag)
       IN /\ allocs' = Granted(allocs, out.fresh)
          /\ borrow_tracker' = AfterTags(borrow_tracker, out.fresh)
          /\ trace' = [trace EXCEPT !.op = "retag_ptr_value", !.res = "Ok",
                          !.hooks = @ + 1, !.ptr = val, !.ptr_after = out.val,
                          !.monitor = out.monitor]
    /\ UNCHANGED <<provVars, cfg, allocation_spans, alloc_addresses, threads, clocks,
                   hook, stacks, rng, const_cache, machine, roots, runs>>

\* retag_place_contents for the place in memory that holds the stored
\* pointers.
RetagPlaceContents ==
    /\ hook.res = "Ok" /\ trace.res \notin Ended
    /\ trace.hooks < MaxSteps
    /\ roots["memory"] # {}
    /\ cfg.borrow_tracker =>
           borrow_tracker.next_ptr_tag + Cardinality(roots["memory"]) - 1 <= MaxTag
    /\ LET out == retag_place_contents(cfg.borrow_tracker, roots["memory"],
                                       borrow_tracker.next_ptr_tag)
       IN /\ roots' = [roots EXCEPT !["memory"] = out.contents]
          /\ allocs' = Granted(allocs, out.fresh)
          /\ borrow_tracker' = AfterTags(borrow_tracker, out.fresh)
          /\ trace' = [trace EXCEPT !.op = "retag_place_contents", !.res = "Ok",
                          !.hooks = @ + 1, !.monitor = out.monitor]
    /\ UNCHANGED <<provVars, cfg, allocation_spans, alloc_addresses, threads, clocks,
                   hook, stacks, rng, const_cache, machine, runs>>

\* before_stack_pop for the top frame of the active thread.
BeforeStackPop ==
    /\ hook.res = "Ok" /\ trace.res \notin Ended
    /\ trace.hooks < MaxSteps
    /\ stacks[threads.active].stack # <<>>
    /\ trace' = [trace EXCEPT !.op = "before_stack_pop", !.res = "Ok",
                    !.hooks = @ + 1, !.monitor = before_stack_pop(cfg.borrow_tracker)]
    /\ UNCHANGED <<stacks, rng, const_cache, machine, roots, nonMachVars>>

\* adjust_alloc_base_pointer for the live allocation id.
AdjustAllocBasePointer(id) ==
    /\ hook.res = "Ok" /\ trace.res \notin Ended
    /\ trace.hooks < MaxSteps
    /\ id \in 1..Len(allocs) /\ allocs[id].live
    /\ trace' = [trace EXCEPT !.op = "adjust_alloc_base_pointer", !.res = "Ok",
                    !.hooks = @ + 1, !.ptr_after = BasePointer(id), !.monitor = <<>>]
    /\ UNCHANGED <<stacks, rng, const_cache, machine, roots, nonMachVars>>

(***************************************************************************)
(* Constant evaluation with an evaluation function that evaluates          *)
(* constants itself (machine.rs 565-568, 1505-1532).                       *)
(***************************************************************************)
\* The evaluation functions of the model: eval fails or succeeds with a
\* value, and on its way it may ask for the constant `nested` through the
\* same machine; "" stands for an eval that asks for none.
NoNested == ""
EvalFn(ok, value, nested) == [ok |-> ok, value |-> value, nested |-> nested]

\* eval_mir_constant, lines 1521-1531, with the RefCell around the cache:
\* borrow_mut panics when the cell is borrowed, and the borrow taken in line
\* 1524 lasts until the function returns, the call of eval in line 1527
\* included.  borrowed tells whether a caller holds the cell.
RECURSIVE eval_mir_constant_in(_, _, _, _, _)
eval_mir_constant_in(cache, borrowed, val, salt, eval) ==
    IF borrowed
    THEN [res |-> "panic", value |-> NoValue, invoked |-> 0, cache |-> cache]
    ELSE IF <<val, salt>> \in DOMAIN cache
    THEN [res |-> "Ok", value |-> cache[<<val, salt>>], invoked |-> 0, cache |-> cache]
    ELSE LET inner == IF eval.nested = NoNested
                      THEN [res |-> "Ok", value |-> NoValue, invoked |-> 0, cache |-> cache]
                      ELSE eval_mir_constant_in(cache, TRUE, eval.nested, salt,
                                                EvalFn(eval.ok, eval.value, NoNested))
         IN IF inner.res = "panic"
            THEN [res |-> "panic", value |-> NoValue, invoked |-> 1, cache |-> cache]
            ELSE IF eval.ok
            THEN [res |-> "Ok", value |-> eval.value, invoked |-> 1 + inner.invoked,
                  cache |-> [k \in DOMAIN inner.cache \cup {<<val, salt>>} |->
                                IF k = <<val, salt>> THEN eval.value ELSE inner.cache[k]]]
            ELSE [res |-> "Err", value |-> NoValue, invoked |-> 1 + inner.invoked,
                  cache |-> inner.cache]

\* The engine evaluates constant val in the top frame of the active thread
\* with an evaluation function that asks for the constant nested, if any.
EvalConstNested(val, ok, nested) ==
    /\ hook.res = "Ok" /\ trace.res \notin Ended
    /\ trace.n_evals < MaxEvals
    /\ LET th == stacks[threads.active]
       IN /\ th.stack # <<>>
          /\ LET salt == th.stack[Len(th.stack)].salt
                 fresh == [n |-> trace.n_evals + 1, tag |-> 0]
                 out == eval_mir_constant_in(const_cache, FALSE, val, salt,
                                             EvalFn(ok, fresh, nested))
             IN /\ const_cache' = out.cache
                /\ trace' = [trace EXCEPT
                       !.op = "eval_const", !.res = out.res, !.const = val, !.salt = salt,
                       !.hit = <<val, salt>> \in DOMAIN const_cache,
                       !.value = out.value, !.invoked = out.invoked,
                       !.n_evals = @ + out.invoked, !.nested = nested]
    /\ UNCHANGED <<stacks, rng, machine, roots, nonMachVars>>

(***************************************************************************)
(* Protection of an argument passed in place (machine.rs 1338-1357).       *)
(***************************************************************************)
\* No place was written.
NoPlace == [some |-> FALSE, place |-> Ptr(None, 0), bytes |-> "kept"]

\* What a call of protect_in_place_function_argument did: the steps in
\* order, each with the place it was given, and the place that was
\* overwritten with its new contents.
NoProtect == [log |-> <<>>, written |-> NoPlace]

\* The monitor's protect_place: the place with a fresh, protected tag, which
\* the allocation grants, or a violation when the allocation does not know
\* the tag of the place.
protect_place(as, place, next) ==
    IF bt_check(as[place.provenance.alloc_id].borrow_tracker,
                [kind |-> "Concrete", tag |-> place.provenance.tag]) = "Ok"
    THEN [res |-> "Ok", place |-> [place EXCEPT !.provenance.tag = next],
          fresh |-> (place.provenance.tag :> next)]
    ELSE [res |-> "AliasingViolation", place |-> place, fresh |-> <<>>]

\* The engine's write_uninit through place, after the steps of log: the
\* place must point into live memory, the write hook runs, and when it
\* agrees the bytes of the place become uninitialized.
write_uninit(s, place, log) ==
    LET id == place.provenance.alloc_id
        step == [step |-> "write_uninit", place |-> place]
        hooked == on_memory_write(s, id, [kind |-> "Concrete", tag |-> place.provenance.tag],
                                  place.offset, place.offset + 1)
    IN IF ~s.allocs[id].live
       THEN [state |-> [s EXCEPT !.hook.res = "DanglingPointer"], res |-> "DanglingPointer",
             log |-> Append(log, step), written |-> NoPlace]
       ELSE [state |-> hooked, res |-> hooked.hook.res, log |-> Append(log, step),
             written |-> IF hooked.hook.res = "Ok"
                         THEN [some |-> TRUE, place |-> place, bytes |-> "uninit"]
                         ELSE NoPlace]

\* An argument that is overwritten through the place as it was passed.
write_uninit_unprotected(s, place) == write_uninit(s, place, <<>>)

\* protect_in_place_function_argument, lines 1338-1357.
protect_in_place_function_argument(s, place) ==
    LET protected == IF s.cfg.borrow_tracker
                     THEN protect_place(s.allocs, place, s.borrow_tracker.next_ptr_tag)
                     ELSE [res |-> "Ok", place |-> place, fresh |-> <<>>]
        log == IF s.cfg.borrow_tracker
               THEN <<[step |-> "protect_place", place |-> place]>> ELSE <<>>
        retagged == [s EXCEPT !.allocs = Granted(@, protected.fresh),
                              !.borrow_tracker = AfterTags(@, protected.fresh)]
    IN IF protected.res # "Ok"
       THEN [state |-> [s EXCEPT !.hook.res = protected.res], res |-> protected.res,
             log |-> log, written |-> NoPlace]
       ELSE write_uninit(retagged, protected.place, log)

\* protect_in_place_function_argument for a place in an allocation that was
\* made, live or freed.
ProtectInPlaceFunctionArgument(place) ==
    /\ StillRunning(MemState) /\ trace.res \notin Ended
    /\ place.provenance.kind = "Concrete"
    /\ place.provenance.alloc_id \in 1..Len(allocs)
    /\ place.offset < allocs[place.provenance.alloc_id].size
    /\ cfg.borrow_tracker => borrow_tracker.next_ptr_tag <= MaxTag
    /\ LET out == protect_in_place_function_argument(MemState, place)
       IN /\ Becomes(out.state)
          /\ trace' = [trace EXCEPT !.op = "protect_in_place_function_argument",
                          !.res = out.res, !.hooks = @ + 1, !.ptr = place,
                          !.protect = [log |-> out.log, written |-> out.written]]
    /\ UNCHANGED <<provVars, stacks, rng, const_cache, machine, roots, runs>>

(***************************************************************************)
(* Abnormal termination (machine.rs 738-745).                              *)
(***************************************************************************)
\* A handler that leaves the profiler where it is.
handle_abnormal_termination_keep(m) == m

\* handle_abnormal_termination: drop(self.profiler.take()).
handle_abnormal_termination(m) == [m EXCEPT !.profiler = FALSE]

\* The interpreter shuts down abnormally, at any point of the run, and may
\* be told so more than once; trace.released counts the profilers dropped.
HandleAbnormalTermination ==
    /\ trace.terminations < MaxTerminations
    /\ LET out == handle_abnormal_termination(machine)
       IN /\ machine' = out
          /\ trace' = [trace EXCEPT !.op = "handle_abnormal_termination",
                          !.res = "terminated", !.terminations = @ + 1,
                          !.released = @ + (IF machine.profiler /\ ~out.profiler
                                            THEN 1 ELSE 0)]
    /\ UNCHANGED <<stacks, rng, const_cache, roots, nonMachVars>>

\* The engine pops the top frame of a run that was told to shut down: the
\* pop and after_stack_pop (lines 1461-1490) as in a run that goes on.
PopFrameLate ==
    /\ hook.res = "Ok" /\ trace.res = "terminated"
    /\ LET t == threads.active
           th == stacks[t]
       IN /\ th.stack # <<>>
          /\ LET frame == th.stack[Len(th.stack)]
                 stack == SubSeq(th.stack, 1, Len(th.stack) - 1)
             IN /\ stacks' = [stacks EXCEPT ![t] =
                       [stack |-> stack,
                        top_user_relevant_frame |->
                            IF frame.is_user_relevant
                            THEN recompute_top_user_relevant_frame(stack)
                            ELSE th.top_user_relevant_frame]]
                /\ trace' = [trace EXCEPT !.op = "pop", !.salt = frame.salt,
                                !.res = IF machine.profiler /\ ~frame.timing
                                        THEN "panic" ELSE "terminated",
                                !.seen = [k \in {j \in DOMAIN @ : ~(j[1] = t /\ j[2] = Len(th.stack))}
                                             |-> @[k]]]
    /\ UNCHANGED <<rng, const_cache, machine, roots, nonMachVars>>

(***************************************************************************)
(* Calls of functions (machine.rs 942-966) and the foreign items of the    *)
(* Solaris family (shims/unix/solarish/foreign_items.rs).                  *)
(***************************************************************************)
\* Link names of foreign functions, calling conventions, and the numbers of
\* arguments of a call.
Symbols == {"___errno", "getpid", "environ"}
Abis == {"C", "Rust"}
ArgCounts == 0..1

\* What a destination holds: nothing yet, or the address of errno.
NoScalar == "uninit"
ErrnoRef == "errno_place"

\* The engine's check_shim: the caller's convention is the expected one and
\* the arguments are as many as the shim takes.
check_shim(abi, exp_abi, nargs, exp_nargs) == abi = exp_abi /\ nargs = exp_nargs

\* The engine's last_error_place and write_scalar, which succeed unless the
\* engine reports an error of its own.
write_scalar(engine_ok, scalar, dest) == IF engine_ok THEN scalar ELSE dest

\* A dispatcher that emulates errno under every name.
emulate_foreign_item_inner_any_name(link_name, abi, nargs, dest, engine_ok) ==
    IF ~check_shim(abi, "C", nargs, 0) \/ ~engine_ok
    THEN [res |-> "Err", dest |-> dest]
    ELSE [res |-> "NeedsJumping", dest |-> write_scalar(engine_ok, ErrnoRef, dest)]

\* emulate_foreign_item_inner of the Solaris family, lines 13-32.
emulate_foreign_item_inner(link_name, abi, nargs, dest, engine_ok) ==
    IF link_name = "___errno"
    THEN IF ~check_shim(abi, "C", nargs, 0) \/ ~engine_ok
         THEN [res |-> "Err", dest |-> dest]
         ELSE [res |-> "NeedsJumping", dest |-> write_scalar(engine_ok, ErrnoRef, dest)]
    ELSE [res |-> "NotSupported", dest |-> dest]

\* The engine's emulate_foreign_item on a target of the Solaris family: the
\* dispatcher's answer, the jump to the continuation when it emulated the
\* call, an error for a function that is not supported.
emulate_foreign_item(link_name, abi, nargs, dest, engine_ok) ==
    LET inner == emulate_foreign_item_inner(link_name, abi, nargs, dest, engine_ok)
    IN [route |-> "emulate_foreign_item", inner |-> inner.res, dest |-> inner.dest,
        jumped |-> inner.res = "NeedsJumping",
        res |-> CASE inner.res = "NeedsJumping" -> "Ok"
                  [] inner.res = "NotSupported" -> "UnsupportedOperation"
                  [] OTHER -> "Err"]

\* A call that loads the body of every function, foreign or not.
find_mir_or_eval_fn_load_always(is_foreign_item, link_name, abi, nargs, dest, engine_ok) ==
    [route |-> "load_mir", inner |-> "none", dest |-> dest, jumped |-> FALSE,
     res |-> IF engine_ok THEN "Ok" ELSE "Err"]

\* find_mir_or_eval_fn, lines 942-966.
find_mir_or_eval_fn(is_foreign_item, link_name, abi, nargs, dest, engine_ok) ==
    IF is_foreign_item
    THEN emulate_foreign_item(link_name, abi, nargs, dest, engine_ok)
    ELSE [route |-> "load_mir", inner |-> "none", dest |-> dest, jumped |-> FALSE,
          res |-> IF engine_ok THEN "Ok" ELSE "Err"]

\* The program calls a function; trace.dest is what the destination of the
\* call holds.
FindMirOrEvalFn(is_foreign_item, link_name, abi, nargs, engine_ok) ==
    /\ hook.res = "Ok" /\ trace.res \notin Ended
    /\ trace.hooks < MaxSteps
    /\ stacks[threads.active].stack # <<>>
    /\ LET out == find_mir_or_eval_fn(is_foreign_item, link_name, abi, nargs,
                                      trace.dest, engine_ok)
       IN trace' = [trace EXCEPT !.op = "find_mir_or_eval_fn", !.res = "Ok",
                       !.hooks = @ + 1,
                       !.call = [is_foreign_item |-> is_foreign_item,
                                 link_name |-> link_name, abi |-> abi, nargs |-> nargs,
                                 engine_ok |-> engine_ok, dest |-> trace.dest],
                       !.found = [route |-> out.route, inner |-> out.inner,
                                  jumped |-> out.jumped, res |-> out.res],
                       !.dest = out.dest]
    /\ UNCHANGED <<stacks, rng, const_cache, machine, roots, nonMachVars>>

\* The program overwrites the destination of an earlier call.
ClearDest ==
    /\ hook.res = "Ok" /\ trace.res \notin Ended
    /\ trace.dest # NoScalar
    /\ trace' = [trace EXCEPT !.op = "store", !.res = "Ok", !.dest = NoScalar]
    /\ UNCHANGED <<stacks, rng, const_cache, machine, roots, nonMachVars>>

(***************************************************************************)
(* The symbolic alignment check (machine.rs 570-576, 881-924).  A u64 is   *)
(* four limbs of 16 bits, the lowest first; an Align is its number of      *)
(* bytes, a power of two.                                                  *)
(***************************************************************************)
Limb == 65536
SizeZero == <<0, 0, 0, 0>>

\* The offsets of the model: n bytes into an allocation, or n bytes past
\* 2^16, 2^32 or 2^48 bytes.
Offsets ==
    {[i \in 1..4 |-> IF i = 1 THEN n ELSE IF i = h + 1 THEN 1 ELSE 0] :
        n \in 0..MaxOffset, h \in 0..3}

\* Align values up to 2^MaxAlignLog bytes.
AlignValues == {2^k : k \in 0..MaxAlignLog}

\* a < b for two u64.
u64_lt(a, b) ==
    \E i \in 1..4 : a[i] < b[i] /\ \A j \in (i + 1)..4 : a[j] = b[j]

\* The borrow into limb i of a - b.
RECURSIVE borrow_into(_, _, _)
borrow_into(a, b, i) ==
    IF i = 1 THEN 0
    ELSE IF a[i - 1] - b[i - 1] - borrow_into(a, b, i - 1) < 0 THEN 1 ELSE 0

\* u64::saturating_sub.
saturating_sub(a, b) ==
    IF u64_lt(a, b) THEN SizeZero
    ELSE [i \in 1..4 |-> (a[i] - b[i] - borrow_into(a, b, i)) % Limb]

\* u64::wrapping_sub: the borrow out of the highest limb is dropped.
wrapping_sub(a, b) == [i \in 1..4 |-> (a[i] - b[i] - borrow_into(a, b, i)) % Limb]

\* a % m for a u64 a and m of at most 2^14, by long division.
RECURSIVE rem_from(_, _, _)
rem_from(a, m, i) ==
    IF i > 4 THEN 0 ELSE (rem_from(a, m, i + 1) * Limb + a[i]) % m
u64_rem(a, m) == rem_from(a, m, 1)

\* The index of the lowest and of the highest set bit of a limb that is not 0.
low_bit(x) == CHOOSE k \in 0..15 : x % (2^k) = 0 /\ (x \div (2^k)) % 2 = 1
high_bit(x) == CHOOSE k \in 0..15 : x \div (2^k) = 1

\* u64::ilog2 where it is defined, 64 for 0.
ilog2(a) ==
    LET set == {i \in 1..4 : a[i] # 0}
    IN IF set = {} THEN 64
       ELSE LET i == CHOOSE i \in set : \A j \in set : j <= i
            IN 16 * (i - 1) + high_bit(a[i])

\* A count of zeros that stops at the highest set bit, not the lowest.
zeros_below_highest(a) == ilog2(a)

\* u64::trailing_zeros.
trailing_zeros(a) ==
    LET set == {i \in 1..4 : a[i] # 0}
    IN IF set = {} THEN 64
       ELSE LET i == CHOOSE i \in set : \A j \in set : i <= j
            IN 16 * (i - 1) + low_bit(a[i])

\* 1 << n: the shift overflows from 64 bits on.
shl_one(n) ==
    IF n >= 64 THEN [ok |-> FALSE, val |-> SizeZero]
    ELSE [ok |-> TRUE,
          val |-> [i \in 1..4 |-> IF i = (n \div 16) + 1 THEN 2^(n % 16) ELSE 0]]

\* Align::from_bytes: an Align for a power of two of at most 2^29 bytes.
from_bytes(x) ==
    IF x.ok /\ x.val # SizeZero /\ ilog2(x.val) = trailing_zeros(x.val)
            /\ trailing_zeros(x.val) <= 29
    THEN [ok |-> TRUE, bytes |-> 2^trailing_zeros(x.val)]
    ELSE [ok |-> FALSE, bytes |-> 0]

\* Option<Misalignment>, with the branch that made it, the distance and the
\* shift of that branch.
NoMisalignment ==
    [some |-> FALSE, has |-> 0, required |-> 0, res |-> "Ok",
     branch |-> "none", distance |-> SizeZero, shift |-> 0]
Misalignment(has, required, branch, distance, shift) ==
    [some |-> TRUE, has |-> has, required |-> required, res |-> "Ok",
     branch |-> branch, distance |-> distance, shift |-> shift]

\* alignment_check, lines 881-924.
alignment_check(check_alignment, symbolic_alignment, alloc_id, alloc_align, alloc_kind, offset, align) ==
    IF check_alignment # "Symbolic" THEN NoMisalignment
    ELSE IF alloc_kind # "LiveData" THEN NoMisalignment
    ELSE LET promised == IF alloc_id \in DOMAIN symbolic_alignment
                         THEN symbolic_alignment[alloc_id]
                         ELSE <<SizeZero, alloc_align>>
             promised_offset == promised[1]
             promised_align == promised[2]
         IN IF promised_align < align
            THEN Misalignment(promised_align, align, "promise", SizeZero, 0)
            ELSE LET distance == wrapping_sub(offset, promised_offset)
                 IN IF u64_rem(distance, align) = 0
                    THEN [NoMisalignment EXCEPT !.branch = "distance", !.distance = distance]
                    ELSE LET shift == trailing_zeros(distance)
                             has == from_bytes(shl_one(shift))
                         IN IF has.ok
                            THEN Misalignment(has.bytes, align, "distance", distance, shift)
                            ELSE [NoMisalignment EXCEPT !.res = "panic", !.branch = "distance",
                                                        !.distance = distance, !.shift = shift]

\* The arguments of a call of alignment_check and the state it reads: the
\* mode of the check and the promises made for allocations.
AlignmentInputs ==
    [check_alignment : {"Int", "Symbolic"},
     symbolic_alignment : {<<>>} \cup {(1 :> <<p, a>>) : p \in Offsets, a \in AlignValues},
     alloc_id : {1}, alloc_align : AlignValues, alloc_kind : {"LiveData", "Dead"},
     offset : Offsets, align : AlignValues]

AlignInit ==
    /\ pin \in AlignmentInputs
    /\ pout = [op |-> "none", status |-> "none", val |-> NoMisalignment]

\* The engine checks the alignment of an access.
AlignmentCheck ==
    /\ pout.op = "none"
    /\ pout' = [op |-> "alignment_check", status |-> "ret",
                val |-> alignment_check(pin.check_alignment, pin.symbolic_alignment,
                                        pin.alloc_id, pin.alloc_align, pin.alloc_kind,
                                        pin.offset, pin.align)]
    /\ UNCHANGED <<pin, nonProvVars>>

(***************************************************************************)
(* The step hook with its counters at their width (machine.rs 545-548,     *)
(* 1404-1432).  A u32 is the sequence of its two 16-bit limbs, lowest      *)
(* first, a u64 that of its four.                                          *)
(***************************************************************************)
U32Zero == <<0, 0>>
U32Max == <<Limb - 1, Limb - 1>>

\* a < b for two u32.
u32_lt(a, b) == a[2] < b[2] \/ (a[2] = b[2] /\ a[1] < b[1])

\* The carry into limb i of x + 1.
RECURSIVE carry_into(_, _)
carry_into(x, i) ==
    IF i = 1 THEN 1
    ELSE IF x[i - 1] + carry_into(x, i - 1) = Limb THEN 1 ELSE 0

\* x + 1 in the width of x; the carry out of the highest limb is dropped.
wrapping_add_one(x) == [i \in DOMAIN x |-> (x[i] + carry_into(x, i)) % Limb]

\* `x += 1` for a u32: at u32::MAX the addition panics in a build with
\* overflow checks and wraps to 0 in a build without.
add_one_u32(x, overflow_checks) ==
    IF x = U32Max /\ overflow_checks
    THEN [res |-> "panic", value |-> x]
    ELSE [res |-> "Ok", value |-> wrapping_add_one(x)]

\* The values of gc_interval and since_gc of the model: n, or n below 2^16
\* or 2^32.
GcIntervals == {U32Zero, <<1, 0>>, <<2, 0>>, <<0, 1>>, U32Max}
SinceGcValues == {<<lo, hi>> : lo \in {0, 1, Limb - 2, Limb - 1}, hi \in {0, Limb - 1}}

\* before_terminator, lines 1404-1432, of a machine without progress
\* reports and preemption: both counters go up by one, the collection runs
\* and resets since_gc when it is due, the clock ticks.
before_terminator_u32(m, as, live) ==
    LET added == add_one_u32(m.since_gc, m.overflow_checks)
        due == u32_lt(U32Zero, m.gc_interval) /\ ~u32_lt(added.value, m.gc_interval)
    IN IF added.res = "panic"
       THEN [res |-> "panic", gc |-> FALSE, allocs |-> as,
             machine |-> [m EXCEPT !.basic_block_count = wrapping_add_one(@)]]
       ELSE [res |-> "Ok", gc |-> due,
             allocs |-> IF due THEN run_provenance_gc(as, live) ELSE as,
             machine |-> [m EXCEPT !.basic_block_count = wrapping_add_one(@),
                                   !.since_gc = IF due THEN U32Zero ELSE added.value,
                                   !.clock = wrapping_add_one(@)]]

\* The engine calls before_terminator at the end of a basic block.
BeforeTerminatorU32 ==
    /\ hook.res = "Ok" /\ trace.res \notin Ended
    /\ trace.calls < MaxSteps
    /\ machine.report_progress < 0 /\ machine.preemption_rate = 0
    /\ LET out == before_terminator_u32(machine, allocs,
                                        visit_provenance(roots) \cup roots["memory"])
       IN /\ machine' = out.machine
          /\ allocs' = out.allocs
          /\ trace' = [trace EXCEPT !.op = "before_terminator", !.res = out.res,
                          !.calls = @ + 1, !.gc = out.gc,
                          !.gc_passes = IF out.gc THEN @ + 1 ELSE @]
    /\ UNCHANGED <<cfg, allocation_spans, alloc_addresses, threads, clocks, borrow_tracker,
                   hook, stacks, rng, const_cache, roots, provVars, runs>>

(***************************************************************************)
(* Two runs of one program (machine.rs 602, 1386, and the draws of the     *)
(* scheduler and of the address assignment from the same generator).       *)
(***************************************************************************)
\* config.seed when no seed is given.
NoSeed == -1
Seeds == {NoSeed, 0, 1}

\* config.preemption_rate in percent.
PreemptionRates == {0, 50}

\* Option::unwrap_or.
unwrap_or(seed, default) == IF seed = NoSeed THEN default ELSE seed

\* StdRng::seed_from_u64: the output stream is a fixed function of the seed.
seed_from_u64(seed) ==
    [stream |-> [i \in 1..MaxDraws |-> (60 * seed + 50 * i + 1) % 101], pos |-> 0]

\* A generator that, without a seed, starts from something else than 0.
new_rng_unseeded_differs(seed) == seed_from_u64(unwrap_or(seed, 1))

\* MiriMachine::new, line 602: the generator of the machine.
new_rng(seed) == seed_from_u64(unwrap_or(seed, 0))

\* The state of a run that the generator bears on: the generator, the active
\* thread, the salts of each thread's frames, the preemption decisions so
\* far, the allocations (live, size) and their addresses.
NewRun(seed, preemption_rate) ==
    [seed |-> seed, preemption_rate |-> preemption_rate, rng |-> new_rng(seed),
     active |-> 1, frames |-> [t \in ThreadIds |-> <<>>], decisions |-> <<>>,
     as |-> <<>>,
     aa |-> [base_addr |-> <<>>, exposed |-> {}, reuse |-> {}, next_base_addr |-> 1],
     steps |-> 0]

NoRuns == <<>>
RunsIdle == runs = NoRuns

\* A frame is pushed on the active thread (init_frame_extra, line 1386).
run_push_frame(r) ==
    [r EXCEPT !.frames[r.active] =
                  Append(@, init_frame_extra([profiler |-> FALSE], FALSE, r.rng, TRUE).salt),
              !.rng = advance(@)]

\* The top frame of the active thread is popped.
run_pop_frame(r) ==
    [r EXCEPT !.frames[r.active] = SubSeq(@, 1, Len(@) - 1)]

\* before_terminator, line 1426: the preemption point.
run_before_terminator(r) ==
    IF r.preemption_rate > 0
    THEN LET preempt == gen_bool(r.rng, r.preemption_rate)
         IN [r EXCEPT !.rng = advance(@),
                      !.active = IF preempt THEN NextThread(@) ELSE @,
                      !.decisions = Append(@, preempt),
                      !.steps = @ + 1]
    ELSE [r EXCEPT !.steps = @ + 1]

\* The program allocates a block.
run_allocate(r, size) == [r EXCEPT !.as = Append(@, [live |-> TRUE, size |-> size])]

\* The program casts a pointer to the block to an integer (expose_ptr).
run_expose(r, id) ==
    LET out == ecx_expose_ptr(r.aa, r.as, r.rng, id)
    IN [r EXCEPT !.aa = out.aa, !.rng = out.rng]

\* The program frees a block (before_memory_deallocation, lines 1304-1309).
run_free(r, id) ==
    [r EXCEPT !.as[id].live = FALSE, !.aa = free_alloc_id(@, id, r.as[id].size)]

\* The same step of the program taken in both runs.
BothRuns(after) ==
    /\ runs' = after
    /\ UNCHANGED <<provVars, memVars, machVars>>

RunsPushFrame ==
    /\ \A i \in DOMAIN runs : /\ runs[i].rng.pos < MaxDraws
                              /\ Len(runs[i].frames[runs[i].active]) < MaxFrames
    /\ BothRuns([i \in DOMAIN runs |-> run_push_frame(runs[i])])

RunsPopFrame ==
    /\ \A i \in DOMAIN runs : runs[i].frames[runs[i].active] # <<>>
    /\ BothRuns([i \in DOMAIN runs |-> run_pop_frame(runs[i])])

RunsBeforeTerminator ==
    /\ \A i \in DOMAIN runs : /\ runs[i].steps < MaxSteps
                              /\ runs[i].preemption_rate > 0 => runs[i].rng.pos < MaxDraws
    /\ BothRuns([i \in DOMAIN runs |-> run_before_terminator(runs[i])])

RunsAllocate(size) ==
    /\ \A i \in DOMAIN runs : Len(runs[i].as) < MaxAllocId
    /\ BothRuns([i \in DOMAIN runs |-> run_allocate(runs[i], size)])

RunsExpose(id) ==
    /\ \A i \in DOMAIN runs : /\ id \in DOMAIN runs[i].as /\ runs[i].as[id].live
                              /\ id \notin DOMAIN runs[i].aa.base_addr
                              /\ runs[i].rng.pos < MaxDraws
    /\ BothRuns([i \in DOMAIN runs |-> run_expose(runs[i], id)])

RunsFree(id) ==
    /\ \A i \in DOMAIN runs : id \in DOMAIN runs[i].as /\ runs[i].as[id].live
    /\ BothRuns([i \in DOMAIN runs |-> run_free(runs[i], id)])

(***************************************************************************)
(* Two machines that differ in what they track (machine.rs 1094-1101,      *)
(* 1235-1238, 1258-1261, 1285-1287), going through the same hooks.         *)
(***************************************************************************)
\* The scheduler hands control to thread t.
on_switch_thread(s, t) == [s EXCEPT !.threads.active = t]

\* A heap allocation of the given size in both machines.
TrackAllocate(size) ==
    /\ \A i \in DOMAIN runs : can_adjust_allocation(runs[i])
    /\ BothRuns([i \in DOMAIN runs |-> on_adjust_allocation(runs[i], "Rust", size, 1)])

\* A read of the first byte of allocation id in both machines.
TrackRead(id, prov_extra) ==
    /\ \A i \in DOMAIN runs : can_access(runs[i], id, 0, 1)
    /\ BothRuns([i \in DOMAIN runs |-> on_memory_read(runs[i], id, prov_extra, 0, 1)])

\* A write of the first byte of allocation id in both machines.
TrackWrite(id, prov_extra) ==
    /\ \A i \in DOMAIN runs : can_access(runs[i], id, 0, 1)
    /\ BothRuns([i \in DOMAIN runs |-> on_memory_write(runs[i], id, prov_extra, 0, 1)])

\* A deallocation of allocation id in both machines.
TrackDeallocate(id, prov_extra) ==
    /\ \A i \in DOMAIN runs : can_deallocate(runs[i], id)
    /\ BothRuns([i \in DOMAIN runs |-> on_memory_deallocation(runs[i], id, prov_extra)])

\* A switch to thread t in both machines.
TrackSwitchThread(t) ==
    /\ \A i \in DOMAIN runs : runs[i].hook.res = "Ok" /\ t # runs[i].threads.active
    /\ BothRuns([i \in DOMAIN runs |-> on_switch_thread(runs[i], t)])

(***************************************************************************)
(* Specifications.                                                         *)
(***************************************************************************)
\* The configurations of the three components, diagnostics off.
ComponentConfigs ==
    [borrow_tracker : BOOLEAN, data_race_detector : BOOLEAN,
     weak_memory_emulation : BOOLEAN, tracked_alloc_ids : {{}},
     track_alloc_accesses : {FALSE}, collect_leak_backtraces : {TRUE}]

MemIdle == MemInit({[borrow_tracker |-> FALSE, data_race_detector |-> FALSE,
                     weak_memory_emulation |-> FALSE, tracked_alloc_ids |-> {},
                     track_alloc_accesses |-> FALSE, collect_leak_backtraces |-> FALSE]})

\* Allocation and deallocation of memory of the given kinds.
AllocNext(kinds) ==
    \/ \E kind \in kinds, size \in 1..MaxSize : AdjustAllocation(kind, size, 1)
    \/ \E id \in AllocIds, pe \in ProvenanceExtra : Deallocate(id, pe)

\* The memory hooks on allocations of the given kinds.
MemNext(kinds) ==
    \/ \E kind \in kinds, size \in 1..MaxSize : AdjustAllocation(kind, size, 1)
    \/ \E id \in AllocIds, pe \in ProvenanceExtra, lo \in 0..(MaxSize - 1), hi \in 1..MaxSize :
          MemoryRead(id, pe, lo, hi)
    \/ \E id \in AllocIds, pe \in ProvenanceExtra, lo \in 0..(MaxSize - 1), hi \in 1..MaxSize :
          MemoryWrite(id, pe, lo, hi)
    \/ \E id \in AllocIds, pe \in ProvenanceExtra : Deallocate(id, pe)

\* A machine without profiler, garbage collection or progress reports.
PlainMachine ==
    [profiler |-> FALSE, gc_interval |-> 0, report_progress |-> -1, preemption_rate |-> 0,
     basic_block_count |-> 0, since_gc |-> 0, clock |-> 0, extern_statics |-> <<>>]

MachIdle == MachInit({PlainMachine}, {[i \in 1..MaxDraws |-> 0]})

\* Pure operations on provenance values.
InitProv == ProvInit /\ MemIdle /\ MachIdle /\ RunsIdle
SpecProv == InitProv /\ [][ProvNext]_vars

\* Several threads working on heap allocations, with a lock to synchronise.
RaceNext ==
    \/ MemNext({"Rust"})
    \/ Release
    \/ Acquire
    \/ \E t \in ThreadIds : SwitchThread(t)

InitMem == ProvIdle /\ MemInit(ComponentConfigs) /\ MachIdle /\ RunsIdle
SpecRace == InitMem /\ [][RaceNext]_vars

\* One thread allocating and freeing memory of every kind.
AllocKindsNext == AllocNext(MemoryKind)
SpecAlloc == InitMem /\ [][AllocKindsNext]_vars

\* One thread allocating and freeing memory of every kind, with and without
\* the collection of backtraces for the leak report.
BacktraceConfigs ==
    [borrow_tracker : {FALSE}, data_race_detector : {FALSE},
     weak_memory_emulation : {FALSE}, tracked_alloc_ids : {{}},
     track_alloc_accesses : {FALSE}, collect_leak_backtraces : BOOLEAN]
InitBacktrace == ProvIdle /\ MemInit(BacktraceConfigs) /\ MachIdle /\ RunsIdle
BacktraceNext == AllocNext(MemoryKind)
SpecBacktrace == InitBacktrace /\ [][BacktraceNext]_vars

\* One thread allocating and freeing memory of every kind, the engine
\* announcing the locals it allocates.
SpanNext ==
    \/ AllocNext(MemoryKind)
    \/ \E id \in AllocIds : AfterLocalAllocated(id)
SpecSpan == InitMem /\ [][SpanNext]_vars

\* One thread reading, writing and freeing heap memory.
AccessNext == MemNext({"C"})
SpecAccess == InitMem /\ [][AccessNext]_vars

\* One thread pushing and popping frames and evaluating constants in them.
ConstNext ==
    \/ \E is_user_relevant \in BOOLEAN : PushFrame(is_user_relevant)
    \/ PopFrame
    \/ \E val \in Consts, ok \in BOOLEAN : EvalConst(val, ok, 0)

InitConst ==
    /\ ProvIdle
    /\ MemIdle
    /\ MachInit([profiler : BOOLEAN, gc_interval : {0}, report_progress : {-1},
                 preemption_rate : {0},
                 basic_block_count : {0}, since_gc : {0}, clock : {0},
                 extern_statics : {<<>>}], RngStreams)
    /\ RunsIdle
SpecConst == InitConst /\ [][ConstNext]_vars

\* A machine that has run since_gc steps since it started or last collected,
\* for small and for large numbers of steps, built with and without overflow
\* checks, with the collection disabled and with small and large intervals.
CounterMachines ==
    {[profiler |-> FALSE, gc_interval |-> g, report_progress |-> -1, preemption_rate |-> 0,
      basic_block_count |-> <<s[1], s[2], 0, 0>>, since_gc |-> s,
      clock |-> <<s[1], s[2], 0, 0>>, extern_statics |-> <<>>, overflow_checks |-> b] :
        <<g, s, b>> \in {x \in GcIntervals \X SinceGcValues \X BOOLEAN :
                            x[1] = U32Zero \/ u32_lt(x[2], x[1])}}

CounterNext == BeforeTerminatorU32

InitCounter ==
    /\ ProvIdle
    /\ MemIdle
    /\ MachInit(CounterMachines, {[i \in 1..MaxDraws |-> 0]})
    /\ RunsIdle
SpecCounter == InitCounter /\ [][CounterNext]_vars

\* Two threads pushing and popping frames, with and without profiler, in a
\* run that is told to shut down at some point and unwinds its stacks.
ProfilerNext ==
    \/ \E is_user_relevant \in BOOLEAN : PushFrame(is_user_relevant)
    \/ PopFrame
    \/ \E t \in ThreadIds : SwitchThread(t)
    \/ HandleAbnormalTermination
    \/ PopFrameLate

InitProfiler ==
    /\ ProvIdle
    /\ MemIdle
    /\ MachInit([profiler : BOOLEAN, gc_interval : {0}, report_progress : {-1},
                 preemption_rate : {0},
                 basic_block_count : {0}, since_gc : {0}, clock : {0},
                 extern_statics : {<<>>}], {[i \in 1..MaxDraws |-> 0]})
    /\ RunsIdle
SpecProfiler == InitProfiler /\ [][ProfilerNext]_vars

\* Constants evaluated in the frames of one thread by evaluation functions
\* that ask for no constant, for the same constant or for another one.
NestedNext ==
    \/ \E is_user_relevant \in BOOLEAN : PushFrame(is_user_relevant)
    \/ PopFrame
    \/ \E val \in Consts, ok \in BOOLEAN, nested \in Consts \cup {NoNested} :
          EvalConstNested(val, ok, nested)

InitNested ==
    /\ ProvIdle
    /\ MemIdle
    /\ MachInit({PlainMachine}, [1..MaxDraws -> {0, 1}])
    /\ RunsIdle
SpecNested == InitNested /\ [][NestedNext]_vars

\* Joins of two and of three provenance values.
JoinNext ==
    \/ DoJoin
    \/ DoJoinLeft
    \/ DoJoinRight
InitJoin == ProvInit3 /\ MemIdle /\ MachIdle /\ RunsIdle
SpecJoin == InitJoin /\ [][JoinNext]_vars

\* Two threads pushing and popping frames of both sorts.
FramesNext ==
    \/ \E is_user_relevant \in BOOLEAN : PushFrame(is_user_relevant)
    \/ PopFrame
    \/ \E t \in ThreadIds : SwitchThread(t)

InitFrames ==
    /\ ProvIdle
    /\ MemIdle
    /\ MachInit([profiler : BOOLEAN, gc_interval : {0}, report_progress : {-1},
                 preemption_rate : {0},
                 basic_block_count : {0}, since_gc : {0}, clock : {0},
                 extern_statics : {<<>>}], {[i \in 1..MaxDraws |-> 0]})
    /\ RunsIdle
SpecFrames == InitFrames /\ [][FramesNext]_vars

\* The aliasing monitor at work with the garbage collection of tags: heap
\* allocations, pointers stored in the machine's fields, constants holding
\* pointers, reads, and the step hook.
GCFields == {"threads", "extern_statics", "memory"}

GCNext ==
    \/ \E size \in 1..MaxSize : AdjustAllocation("Rust", size, 1)
    \/ \E id \in AllocIds, tag \in 1..MaxTag :
          MemoryRead(id, [kind |-> "Concrete", tag |-> tag], 0, 1)
    \/ \E f \in GCFields, tag \in 1..MaxTag : StorePointer(f, tag)
    \/ \E f \in GCFields, tag \in 1..MaxTag : DropPointer(f, tag)
    \/ PushFrame(TRUE)
    \/ \E tag \in 1..MaxTag : EvalConst("K1", TRUE, tag)
    \/ BeforeTerminator

InitGC ==
    /\ ProvIdle
    /\ MemInit({[borrow_tracker |-> TRUE, data_race_detector |-> FALSE,
                  weak_memory_emulation |-> FALSE, tracked_alloc_ids |-> {},
                  track_alloc_accesses |-> FALSE, collect_leak_backtraces |-> FALSE]})
    /\ MachInit([profiler : {FALSE}, gc_interval : 0..MaxSteps,
                 report_progress : {-1, MaxSteps - 1}, preemption_rate : {0},
                 basic_block_count : {0}, since_gc : {0}, clock : {0},
                 extern_statics : {<<>>}],
                {[i \in 1..MaxDraws |-> 1]})
    /\ RunsIdle
SpecGC == InitGC /\ [][GCNext]_vars

\* The step hook under every setting of its intervals and of the preemption
\* rate, with tags for the collection to find.
StepNext ==
    \/ \E size \in 1..MaxSize : AdjustAllocation("Rust", size, 1)
    \/ \E f \in GCFields, tag \in 1..MaxTag : StorePointer(f, tag)
    \/ \E f \in GCFields, tag \in 1..MaxTag : DropPointer(f, tag)
    \/ BeforeTerminator

InitStep ==
    /\ ProvIdle
    /\ MemInit({[borrow_tracker |-> TRUE, data_race_detector |-> FALSE,
                  weak_memory_emulation |-> FALSE, tracked_alloc_ids |-> {},
                  track_alloc_accesses |-> FALSE, collect_leak_backtraces |-> FALSE]})
    /\ MachInit([profiler : {FALSE}, gc_interval : 0..2,
                 report_progress : {-1, 0, 2}, preemption_rate : {0, 50},
                 basic_block_count : {0}, since_gc : {0}, clock : {0},
                 extern_statics : {<<>>}],
                [1..MaxDraws -> {1, 51}])
    /\ RunsIdle
SpecStep == InitStep /\ [][StepNext]_vars

\* One thread allocating, freeing, exposing and resolving pointers, the
\* monitor off.
DefaultTagPointers == {ptr \in Pointers : ptr.provenance.tag = 0}

PtrNext ==
    \/ \E size \in 1..MaxSize : AdjustAllocation("Rust", size, 1)
    \/ \E id \in AllocIds : Deallocate(id, [kind |-> "Wildcard", tag |-> 0])
    \/ \E ptr \in DefaultTagPointers : ExposePtr(ptr)
    \/ \E ptr \in DefaultTagPointers : PtrGetAlloc(ptr)

InitPtr ==
    /\ ProvIdle
    /\ MemIdle
    /\ MachInit({PlainMachine}, [1..MaxDraws -> {0, 1}])
    /\ RunsIdle
SpecPtr == InitPtr /\ [][PtrNext]_vars

\* Two threads allocating, writing and freeing heap memory through pointers
\* of every tag, with the monitor and the race detector on, the allocations
\* given addresses by casts of pointers to integers.
FreeNext ==
    \/ \E size \in 1..MaxSize : AdjustAllocation("Rust", size, 1)
    \/ \E id \in AllocIds : MemoryWrite(id, [kind |-> "Wildcard", tag |-> 0], 0, 1)
    \/ \E id \in AllocIds, pe \in ProvenanceExtra : Deallocate(id, pe)
    \/ \E t \in ThreadIds : SwitchThread(t)
    \/ \E ptr \in DefaultTagPointers : ExposePtr(ptr)

InitFree ==
    /\ ProvIdle
    /\ MemInit({[borrow_tracker |-> TRUE, data_race_detector |-> TRUE,
                  weak_memory_emulation |-> FALSE, tracked_alloc_ids |-> {},
                  track_alloc_accesses |-> FALSE, collect_leak_backtraces |-> FALSE]})
    /\ MachInit({PlainMachine}, [1..MaxDraws -> {0, 1}])
    /\ RunsIdle
SpecFree == InitFree /\ [][FreeNext]_vars

\* Two runs of one program, each with a seed and a preemption rate of its
\* own, taking the same steps.
DetNext ==
    \/ RunsPushFrame
    \/ RunsPopFrame
    \/ RunsBeforeTerminator
    \/ \E size \in 1..MaxSize : RunsAllocate(size)
    \/ \E id \in AllocIds : RunsExpose(id)
    \/ \E id \in AllocIds : RunsFree(id)

InitDet ==
    /\ ProvIdle
    /\ MemIdle
    /\ MachIdle
    /\ runs \in [1..2 -> {NewRun(seed, rate) : seed \in Seeds, rate \in PreemptionRates}]
SpecDet == InitDet /\ [][DetNext]_vars

\* Extern statics are allocated and registered, and the program looks them
\* up under declarations of its own.
ExternNext ==
    \/ \E size \in 1..MaxSize, align \in Aligns : AdjustAllocation("ExternStatic", size, align)
    \/ \E name \in LinkNames, id \in AllocIds : AddExternStatic(name, id)
    \/ \E name \in LinkNames, size \in 1..MaxSize, align \in Aligns :
          ExternStaticBasePointer(name, size, align)

InitExtern ==
    /\ ProvIdle
    /\ MemInit({[borrow_tracker |-> b, data_race_detector |-> FALSE,
                  weak_memory_emulation |-> FALSE, tracked_alloc_ids |-> {},
                  track_alloc_accesses |-> FALSE, collect_leak_backtraces |-> FALSE]
                    : b \in BOOLEAN})
    /\ MachIdle
    /\ RunsIdle
SpecExtern == InitExtern /\ [][ExternNext]_vars

\* Allocations, frames and pointers with and without the aliasing monitor:
\* values are retagged, frames pushed and popped, memory accessed through
\* pointers of every tag.
MonitorNext ==
    \/ \E size \in 1..MaxSize : AdjustAllocation("Rust", size, 1)
    \/ \E id \in AllocIds, pe \in ProvenanceExtra : MemoryRead(id, pe, 0, 1)
    \/ \E id \in AllocIds, pe \in ProvenanceExtra : MemoryWrite(id, pe, 0, 1)
    \/ \E id \in AllocIds, pe \in ProvenanceExtra : Deallocate(id, pe)
    \/ PushFrame(TRUE)
    \/ BeforeStackPop
    \/ PopFrame
    \/ \E id \in AllocIds : AdjustAllocBasePointer(id)
    \/ \E val \in Pointers : RetagPtrValue(val)
    \/ \E tag \in BorTags : StorePointer("memory", tag)
    \/ RetagPlaceContents

InitMonitor ==
    /\ ProvIdle
    /\ MemInit({[borrow_tracker |-> b, data_race_detector |-> FALSE,
                  weak_memory_emulation |-> FALSE, tracked_alloc_ids |-> {},
                  track_alloc_accesses |-> FALSE, collect_leak_backtraces |-> FALSE]
                    : b \in BOOLEAN})
    /\ MachIdle
    /\ RunsIdle
SpecMonitor == InitMonitor /\ [][MonitorNext]_vars

\* Arguments passed in place, with and without the aliasing monitor and the
\* race detector, on live and on freed allocations, by two threads.
ProtectNext ==
    \/ \E size \in 1..MaxSize : AdjustAllocation("Rust", size, 1)
    \/ \E id \in AllocIds, pe \in ProvenanceExtra : MemoryWrite(id, pe, 0, 1)
    \/ \E id \in AllocIds, pe \in ProvenanceExtra : Deallocate(id, pe)
    \/ \E t \in ThreadIds : SwitchThread(t)
    \/ \E place \in Pointers : ProtectInPlaceFunctionArgument(place)

InitProtect ==
    /\ ProvIdle
    /\ MemInit([borrow_tracker : BOOLEAN, data_race_detector : BOOLEAN,
                 weak_memory_emulation : {FALSE}, tracked_alloc_ids : {{}},
                 track_alloc_accesses : {FALSE}, collect_leak_backtraces : {FALSE}])
    /\ MachIdle
    /\ RunsIdle
SpecProtect == InitProtect /\ [][ProtectNext]_vars

\* A run with or without profiler that is shut down at some point.
TerminationNext ==
    \/ \E size \in 1..MaxSize : AdjustAllocation("Rust", size, 1)
    \/ PushFrame(TRUE)
    \/ PopFrame
    \/ BeforeTerminator
    \/ \E tag \in 1..MaxTag : StorePointer("memory", tag)
    \/ HandleAbnormalTermination

InitTermination ==
    /\ ProvIdle
    /\ MemInit({[borrow_tracker |-> TRUE, data_race_detector |-> FALSE,
                  weak_memory_emulation |-> FALSE, tracked_alloc_ids |-> {},
                  track_alloc_accesses |-> FALSE, collect_leak_backtraces |-> FALSE]})
    /\ MachInit([profiler : BOOLEAN, gc_interval : {0, 1},
                 report_progress : {-1, 0}, preemption_rate : {0},
                 basic_block_count : {0}, since_gc : {0}, clock : {0},
                 extern_statics : {<<>>}],
                {[i \in 1..MaxDraws |-> 0]})
    /\ RunsIdle
SpecTermination == InitTermination /\ [][TerminationNext]_vars

\* A program on a target of the Solaris family that calls functions with and
\* without a body.
ForeignNext ==
    \/ PushFrame(TRUE)
    \/ PopFrame
    \/ \E is_foreign_item \in BOOLEAN, link_name \in Symbols, abi \in Abis,
          nargs \in ArgCounts, engine_ok \in BOOLEAN :
          FindMirOrEvalFn(is_foreign_item, link_name, abi, nargs, engine_ok)
    \/ ClearDest

InitForeign == ProvIdle /\ MemIdle /\ MachIdle /\ RunsIdle
SpecForeign == InitForeign /\ [][ForeignNext]_vars

\* Checks of the alignment of accesses at every offset, with and without a
\* promise for the allocation.
AlignNext == AlignmentCheck
InitAlign == AlignInit /\ MemIdle /\ MachIdle /\ RunsIdle
SpecAlign == InitAlign /\ [][AlignNext]_vars

\* Two machines with the same components: the first tracks nothing, the
\* second any set of allocation ids, with or without their accesses.
TrackNext ==
    \/ \E size \in 1..MaxSize : TrackAllocate(size)
    \/ \E id \in AllocIds, pe \in ProvenanceExtra : TrackRead(id, pe)
    \/ \E id \in AllocIds, pe \in ProvenanceExtra : TrackWrite(id, pe)
    \/ \E id \in AllocIds, pe \in ProvenanceExtra : TrackDeallocate(id, pe)
    \/ \E t \in ThreadIds : TrackSwitchThread(t)

InitTrack ==
    /\ ProvIdle
    /\ MemIdle
    /\ MachIdle
    /\ runs \in {<<new_mem_state(c),
                   new_mem_state([c EXCEPT !.tracked_alloc_ids = ids,
                                           !.track_alloc_accesses = acc])>> :
                    c \in ComponentConfigs, ids \in SUBSET AllocIds, acc \in BOOLEAN}
SpecTrack == InitTrack /\ [][TrackNext]_vars

(***************************************************************************)
(* Claims about the memory hooks.                                          *)
(***************************************************************************)
\* The components a hook called, in the order of the calls.
Targets(calls) == [i \in 1..Len(calls) |-> calls[i].to]

\* The components of the list that the configuration enables.
ComponentOn(c) ==
    CASE c = "borrow_tracker" -> cfg.borrow_tracker
      [] c = "data_race" -> cfg.data_race_detector
      [] c = "weak_memory" -> cfg.weak_memory_emulation
EnabledAmong(list) == SelectSeq(list, ComponentOn)

\* The bytes of the last hook's range on which it conflicts with an access of
\* another thread that is not ordered before it.
HookConflicts ==
    (hook.unsync_w \cup (IF hook.op = "read" THEN {} ELSE hook.unsync_r))
        \cap (hook.lo..(hook.hi - 1))

\* C5: with the race detector enabled, every read and write hook submits its
\* access (allocation id, range) to the race detector, and an access that
\* overlaps an unsynchronized access of another thread, one of the two a
\* write, makes the hook fail with a data race.
C5_RaceFlagged ==
    (cfg.data_race_detector /\ hook.op \in {"read", "write"})
    => /\ Len(hook.calls) >= 1
       /\ hook.calls[1] = Call("data_race", hook.op, hook.id, hook.lo, hook.hi)
       /\ HookConflicts # {} => hook.res = "DataRace"

C5_Witness ==
    /\ cfg.data_race_detector
    /\ hook.op = "read" /\ hook.thread = 2
    /\ hook.lo = 0 /\ hook.hi = 2 /\ hook.unsync_w = {1}
    /\ hook.res = "DataRace"

\* C6 as stated: with all three components enabled, every allocation and
\* every successful deallocation notifies the aliasing monitor, the race
\* detector and the weak-memory buffer, in that order.
C6_Original ==
    (/\ cfg.borrow_tracker /\ cfg.data_race_detector /\ cfg.weak_memory_emulation
     /\ hook.op \in {"adjust_allocation", "deallocate"} /\ hook.res = "Ok")
    => Targets(hook.calls) = <<"borrow_tracker", "data_race", "weak_memory">>

\* C6 as amended: an allocation notifies the enabled components in the order
\* aliasing monitor, race detector, weak-memory buffer; a deallocation
\* notifies the race detector first and the aliasing monitor second (each if
\* enabled, the monitor only when no race was reported) and never the
\* weak-memory buffer.
C6_NotifyOrder ==
    /\ hook.op = "adjust_allocation"
       => Targets(hook.calls) = EnabledAmong(<<"borrow_tracker", "data_race", "weak_memory">>)
    /\ hook.op = "deallocate"
       => Targets(hook.calls) =
              IF hook.res = "DataRace" THEN <<"data_race">>
              ELSE EnabledAmong(<<"data_race", "borrow_tracker">>)

C6_Witness ==
    /\ cfg.borrow_tracker /\ cfg.data_race_detector /\ cfg.weak_memory_emulation
    /\ hook.op = "deallocate" /\ hook.res = "Ok"
    /\ Targets(hook.calls) = <<"data_race", "borrow_tracker">>
    /\ ~allocs[hook.id].live

\* C7: a deallocation of an allocation of size n is submitted to the race
\* detector as a write of the current thread over [0, n), so it fails with a
\* data race when another thread accessed any byte without synchronization.
C7_DeallocIsWrite ==
    (cfg.data_race_detector /\ hook.op = "deallocate")
    => /\ Len(hook.calls) >= 1
       /\ hook.calls[1] = Call("data_race", "write", hook.id, 0, allocs[hook.id].size)
       /\ hook.unsync_w \cup hook.unsync_r # {} => hook.res = "DataRace"

C7_Witness ==
    /\ cfg.data_race_detector
    /\ hook.op = "deallocate" /\ hook.thread = 2
    /\ allocs[hook.id].size = 2
    /\ hook.unsync_w = {} /\ hook.unsync_r = {1}
    /\ hook.res = "DataRace"

\* C8: whatever the weak-memory and race-detector flags, a read or write of
\* an allocation that carries a weak-memory buffer does not crash, and the
\* access is submitted to the race detector.
C8_BufferIndependent ==
    (hook.op \in {"read", "write"} /\ allocs[hook.id].weak_memory)
    => /\ hook.res # "panic"
       /\ Called(hook, "data_race", hook.op)

\* The components that hold state on allocation a, in the order in which the
\* read and write hooks turn to them.
AccessOrder(a) ==
    SelectSeq(<<"data_race", "borrow_tracker", "weak_memory">>,
              LAMBDA c : CASE c = "data_race" -> a.data_race.some
                           [] c = "borrow_tracker" -> a.borrow_tracker.some
                           [] c = "weak_memory" -> a.weak_memory)

\* The part of a list up to and including its first element c, the whole
\* list when c is not in it.
UpTo(list, c) ==
    LET at == {i \in DOMAIN list : list[i] = c}
    IN IF at = {} THEN list ELSE SubSeq(list, 1, CHOOSE i \in at : \A j \in at : i <= j)

\* The calls the last read or write hook must have made, given how it ended.
CallsOfAccess ==
    LET order == AccessOrder(allocs[hook.id])
    IN CASE hook.res = "DataRace" -> <<"data_race">>
         [] hook.res = "AliasingViolation" -> UpTo(order, "borrow_tracker")
         [] hook.res = "panic" -> SelectSeq(order, LAMBDA c : c # "weak_memory")
         [] OTHER -> order

\* A step of a read or write hook that reports a data race.
RacyAccessStep ==
    /\ hook'.n = hook.n + 1
    /\ hook'.op \in {"read", "write"}
    /\ hook'.res = "DataRace"

\* C26: a read or write hook turns to the race detector, then to the aliasing
\* monitor, then to the weak-memory buffer, and stops at the first that fails:
\* an access the race detector flags reaches neither the monitor nor the
\* buffer, and nothing of it is recorded.
C26_AccessCheckOrder ==
    /\ [](hook.op \in {"read", "write"} => Targets(hook.calls) = CallsOfAccess)
    /\ [][RacyAccessStep =>
              UNCHANGED <<allocs, allocation_spans, alloc_addresses, clocks, borrow_tracker>>]_vars

\* With all three components on, thread 2 writes byte 0, which thread 1 has
\* written without synchronisation: only the race detector was asked.
C26_Witness ==
    /\ cfg.borrow_tracker /\ cfg.data_race_detector /\ cfg.weak_memory_emulation
    /\ hook.op = "write" /\ hook.thread = 2 /\ hook.lo = 0 /\ hook.hi = 1
    /\ hook.unsync_w = {0}
    /\ hook.res = "DataRace" /\ Targets(hook.calls) = <<"data_race">>

\* A step of the deallocation hook.
DeallocationStep == hook'.n = hook.n + 1 /\ hook'.op = "deallocate"

\* The address range of allocation id is in the pool of ranges to reuse.
Returned(aa, id) ==
    \E p \in aa.reuse : id \in DOMAIN aa.base_addr /\ p[1] = aa.base_addr[id]

\* C27: a deallocation that the race detector or the aliasing monitor
\* rejects records no span of deallocation and returns no address range;
\* a deallocation that passes both checks does both.
C27_RejectedDeallocation ==
    /\ [][DeallocationStep /\ hook'.res # "Ok" =>
              /\ UNCHANGED <<allocation_spans, alloc_addresses>>
              /\ allocs'[hook'.id].live]_vars
    /\ [][DeallocationStep /\ hook'.res = "Ok" =>
              /\ hook'.id \in DOMAIN allocation_spans =>
                     allocation_spans'[hook'.id].deallocated = hook'.thread
              /\ hook'.id \in DOMAIN alloc_addresses.base_addr =>
                     Returned(alloc_addresses', hook'.id)]_vars
    /\ [](\A id \in DOMAIN allocs : allocs[id].live =>
              /\ id \in DOMAIN allocation_spans => allocation_spans[id].deallocated = 0
              /\ ~Returned(alloc_addresses, id))

\* Thread 2 frees an allocation that has a span and an address and that
\* thread 1 has written: the race detector rejects it, the span has no
\* deallocation and the pool of addresses is empty.
C27_Witness ==
    /\ hook.op = "deallocate" /\ hook.res = "DataRace" /\ hook.thread = 2
    /\ hook.id \in DOMAIN allocation_spans
    /\ allocation_spans[hook.id].deallocated = 0
    /\ hook.id \in DOMAIN alloc_addresses.base_addr
    /\ alloc_addresses.reuse = {}

(***************************************************************************)
(* Claims about the machine state.                                         *)
(***************************************************************************)
\* The key of the last evaluation of a constant.
LastKey == <<trace.const, trace.salt>>

\* What the last evaluation of a constant must have done.
ConstCacheConsistent ==
    /\ trace.op = "eval_const" /\ trace.hit
          => /\ trace.invoked = 0
             /\ trace.res = "Ok"
             /\ trace.value = const_cache[LastKey]
    /\ trace.op = "eval_const" /\ ~trace.hit /\ trace.res = "Ok"
          => /\ trace.invoked = 1
             /\ LastKey \in DOMAIN const_cache
             /\ const_cache[LastKey] = trace.value
    /\ \A key \in DOMAIN trace.ok_evals :
          /\ trace.ok_evals[key] <= 1
          /\ key \in DOMAIN const_cache

\* An entry of the cache is neither removed nor replaced.
ConstCacheStable ==
    \A key \in DOMAIN const_cache :
        /\ key \in DOMAIN const_cache'
        /\ const_cache'[key] = const_cache[key]

\* C10: within one run a constant is evaluated successfully at most once for
\* every (constant, salt) key: on a hit the stored value is returned and the
\* evaluation function is not invoked, on a miss a successful result is
\* stored and returned, and a stored entry never changes.
C10_ConstEvaluatedOnce == []ConstCacheConsistent /\ [][ConstCacheStable]_vars

\* A hit after a later evaluation of another key, in the second of two
\* frames that drew different numbers and got the same salt.
C10_Witness ==
    /\ trace.op = "eval_const" /\ trace.hit /\ trace.invoked = 0
    /\ trace.value.n >= 1 /\ trace.value.n < trace.n_evals
    /\ rng.pos = 2 /\ rng.stream[1] # rng.stream[2]
    /\ LET stack == stacks[threads.active].stack
       IN Len(stack) = 2 /\ stack[1].salt = stack[2].salt

\* C9: a pass of the garbage collection never discards the bookkeeping of a
\* tag that a pointer value stored in the machine state holds at the time of
\* the pass, the values in the constant cache included.
C9_GcKeepsHeldTags == trace.gc_lost = {}

\* The salt of a frame stays as it is while the frame is on a stack.
SaltFixed ==
    \A t \in ThreadIds :
        \A i \in 1..Len(stacks[t].stack) :
            i <= Len(stacks'[t].stack) => stacks'[t].stack[i].salt = stacks[t].stack[i].salt

\* C11: two evaluations of a constant in the same frame return the same
\* value, whatever happened in between, and the salt of a frame does not
\* change while the frame is on the stack.
C11_SameFrameSameValue ==
    /\ [](trace.op = "eval_const" /\ trace.res = "Ok" => trace.same)
    /\ [][SaltFixed]_vars

\* The bottom frame evaluates a constant again after a frame above it, with
\* another salt, evaluated the same constant and was popped.
C11_Witness ==
    /\ trace.op = "eval_const" /\ trace.res = "Ok" /\ trace.hit /\ trace.same
    /\ Len(stacks[threads.active].stack) = 1
    /\ Len(trace.frames) >= 2 /\ trace.frames[2].salt # trace.frames[1].salt
    /\ trace.salt = trace.frames[1].salt
    /\ trace.value.n = 1 /\ trace.n_evals >= 2
    /\ <<trace.const, trace.frames[2].salt>> \in DOMAIN const_cache

\* The keys of the cache that belong to one constant.
KeysOf(val) == {k \in DOMAIN const_cache : k[1] = val}

\* C12: the salt of every frame lies in 0..ADDRS_PER_CONST-1, so a constant
\* has at most ADDRS_PER_CONST memoized results, however many frames
\* evaluate it.
C12_SaltBounded ==
    /\ \A i \in 1..Len(trace.frames) : trace.frames[i].salt \in 0..(ADDRS_PER_CONST - 1)
    /\ \A t \in ThreadIds : \A i \in 1..Len(stacks[t].stack) :
          stacks[t].stack[i].salt \in 0..(ADDRS_PER_CONST - 1)
    /\ \A val \in Consts :
          /\ \A k \in KeysOf(val) : k[2] \in 0..(ADDRS_PER_CONST - 1)
          /\ Cardinality(KeysOf(val)) <= ADDRS_PER_CONST

\* A frame made from a generator output above the pool size memoized a
\* constant.
C12_Witness ==
    /\ rng.pos >= 1 /\ rng.stream[1] >= ADDRS_PER_CONST
    /\ trace.op = "eval_const" /\ trace.res = "Ok" /\ ~trace.hit
    /\ Len(trace.frames) = 1
    /\ LastKey \in DOMAIN const_cache

\* C13 as stated: successive frames get the slots of the pool in cyclic
\* order.
C13_Original ==
    \A i \in 1..(Len(trace.frames) - 1) :
        trace.frames[i + 1].salt = (trace.frames[i].salt + 1) % ADDRS_PER_CONST

\* C13 as amended: the slot of a frame is the generator's output at the
\* creation of the frame modulo the pool size, whatever slots earlier frames
\* have.
C13_SlotFromGenerator ==
    \A i \in 1..Len(trace.frames) :
        trace.frames[i].salt = rng.stream[trace.frames[i].draw] % ADDRS_PER_CONST

\* Two frames made one after the other, both on the stack, share a slot, and
\* the second finds the constant the first memoized.
C13_Witness ==
    /\ Len(trace.frames) = 2 /\ trace.frames[1].salt = trace.frames[2].salt
    /\ Len(stacks[threads.active].stack) = 2
    /\ trace.op = "eval_const" /\ trace.hit /\ trace.value.n = 1

(***************************************************************************)
(* Claims about allocation ids, pointers and addresses.                    *)
(***************************************************************************)
\* No two allocations of the memory map, live or freed, have the same id.
AllocIdsDistinct ==
    \A i \in DOMAIN allocs : \A j \in DOMAIN allocs : i # j => allocs[i].id # allocs[j].id

\* The memory map only grows, and an allocation keeps its id.
AllocsAppendOnly ==
    /\ Len(allocs') >= Len(allocs)
    /\ \A i \in DOMAIN allocs : allocs'[i].id = allocs[i].id

\* C15: allocation ids are pairwise distinct over the whole run and not used
\* again after a deallocation, although the address range of a freed
\* allocation is handed to later allocations.
C15_AllocIdsNeverReused == []AllocIdsDistinct /\ [][AllocsAppendOnly]_vars

\* A later allocation sits at the address of a freed one and has another id.
C15_Witness ==
    /\ Len(allocs) = 2 /\ ~allocs[1].live /\ allocs[2].live
    /\ {1, 2} \subseteq DOMAIN alloc_addresses.base_addr
    /\ alloc_addresses.base_addr[1] = alloc_addresses.base_addr[2]
    /\ allocs[1].id # allocs[2].id

\* C18: a Wildcard pointer whose address lies in an exposed live allocation
\* Y resolves to Y, with the offset into Y and the tag reported as Wildcard;
\* a Wildcard pointer whose address lies in no exposed allocation resolves
\* to no allocation.
C18_WildcardResolution ==
    (trace.op = "ptr_get_alloc" /\ trace.ptr.provenance.kind = "Wildcard")
    => LET found == DOMAIN trace.exposed_at
       IN /\ Cardinality(found) <= 1
          /\ found = {} => ~trace.resolved.some
          /\ \A y \in found :
                trace.resolved =
                    SomeAlloc(y, trace.ptr.offset - trace.exposed_at[y],
                              [kind |-> "Wildcard", tag |-> 0])

\* A Wildcard pointer into the second byte of an exposed allocation.
C18_Witness ==
    /\ trace.op = "ptr_get_alloc" /\ trace.ptr.provenance.kind = "Wildcard"
    /\ trace.resolved.some /\ trace.resolved.offset = 1
    /\ trace.resolved.alloc_id \in alloc_addresses.exposed
    /\ allocs[trace.resolved.alloc_id].live

\* A step that is a resolution of a pointer.
ResolutionStep == trace' # trace /\ trace'.op = "ptr_get_alloc"

\* C19: a resolution leaves the pointer and the machine state as they are;
\* nothing of it is kept for the next use of the pointer.
C19_ResolutionKeepsNothing ==
    /\ [](trace.op = "ptr_get_alloc" => trace.ptr_after = trace.ptr)
    /\ [][ResolutionStep =>
             UNCHANGED <<pin, pout, cfg, allocs, allocation_spans, alloc_addresses,
                         threads, clocks, borrow_tracker, hook, stacks, rng,
                         const_cache, machine, roots>>]_vars

\* The same Wildcard pointer resolves to another allocation than at its use
\* before.
C19_Witness ==
    /\ trace.op = "ptr_get_alloc" /\ trace.ptr.provenance.kind = "Wildcard"
    /\ trace.ptr_after = trace.ptr
    /\ trace.resolved.some
    /\ trace.prev_id # 0 /\ trace.prev_id # trace.resolved.alloc_id

\* A step that is a lookup of an extern static.
LookupStep == trace' # trace /\ trace'.op = "extern_static_base_pointer"

\* What a lookup of an extern static returns.
LookupResult ==
    trace.op = "extern_static_base_pointer"
    => /\ trace.res = "Ok" <=> /\ trace.registered
                               /\ trace.decl.size = trace.shim.size
                               /\ trace.decl.align = trace.shim.align
       /\ trace.res = "Ok" => trace.ret = machine.extern_statics[trace.link_name]
       /\ trace.res # "Ok" => trace.res = "Unsupported" /\ trace.ret.provenance = None

\* C16: the lookup of an extern static returns the registered base pointer
\* if and only if the name is registered and the declared size and alignment
\* are those of the registered allocation; otherwise it fails as
\* unsupported; and it leaves the table as it is.
C16_ExternStaticLookup ==
    /\ []LookupResult
    /\ [][LookupStep => machine'.extern_statics = machine.extern_statics]_vars

\* A lookup with the right size and the wrong alignment is refused.
C16_Witness ==
    /\ trace.op = "extern_static_base_pointer" /\ trace.res = "Unsupported"
    /\ trace.registered
    /\ trace.decl.size = trace.shim.size /\ trace.decl.align # trace.shim.align
    /\ Cardinality(DOMAIN machine.extern_statics) = 2

(***************************************************************************)
(* Claims about allocation spans.                                          *)
(***************************************************************************)
\* The kinds of the allocations that have a span.
SpanKindsRecorded == {allocs[id].kind : id \in DOMAIN allocation_spans}

\* The heap kinds, whose allocation is created where the program asks for it.
SpanHeapKinds == {"Rust", "Miri", "C", "WinHeap", "WinLocal", "Mmap"}

\* C17 as stated: a span is recorded only for allocations of a kind that may
\* not leak.
C17_Original == \A kind \in SpanKindsRecorded : ~may_leak(kind)

\* C17: a span is recorded only for allocations of the heap kinds Rust, Miri,
\* C, WinHeap, WinLocal and Mmap, made as such, and for stack locals; of
\* these kinds Mmap alone may leak.
C17_SpanKinds ==
    /\ SpanKindsRecorded \subseteq SpanHeapKinds \cup {"Stack"}
    /\ \A kind \in SpanKindsRecorded : may_leak(kind) <=> kind = "Mmap"
    /\ \A id \in 1..Len(allocs) :
          allocs[id].kind \in SpanHeapKinds => id \in DOMAIN allocation_spans

\* A mapped allocation and a stack local both have a span.
C17_Witness == SpanKindsRecorded = {"Mmap", "Stack"}

(***************************************************************************)
(* Claims about the step hook.                                             *)
(***************************************************************************)
\* The step just taken is a step on which a collection is due by the
\* interval: a multiple of a positive interval.
OnInterval ==
    machine.gc_interval > 0 /\ machine.basic_block_count % machine.gc_interval = 0

\* The passes made after the steps so far: one for every full interval.
PassesByInterval ==
    IF machine.gc_interval > 0 THEN machine.basic_block_count \div machine.gc_interval ELSE 0

\* C20: with gc_interval = N > 0 the step hook runs a collection on the steps
\* N, 2N, 3N, ... and on no other step, and with gc_interval = 0 it never
\* runs one.
C20_GcEveryInterval ==
    /\ trace.op = "before_terminator" /\ trace.res = "Ok" => (trace.gc <=> OnInterval)
    /\ trace.res # "panic" => trace.gc_passes = PassesByInterval

\* With an interval of 2 the third step has passed: one collection, on the
\* second step, and none on the third.
C20_Witness ==
    /\ trace.op = "before_terminator" /\ trace.res = "Ok"
    /\ machine.gc_interval = 2 /\ machine.basic_block_count = 3
    /\ trace.gc_passes = 1 /\ ~trace.gc /\ machine.since_gc = 1

(***************************************************************************)
(* Claims about reproducible runs.                                         *)
(***************************************************************************)
\* What a run shows: the salts of its frames, the active thread, the
\* preemption decisions, the addresses assigned and the ranges kept for
\* reuse, and how far the generator has got.
Shown(r) ==
    [frames |-> r.frames, active |-> r.active, decisions |-> r.decisions,
     aa |-> r.aa, draws |-> r.rng.pos]

\* The two runs were configured with the same seed, none counting as 0, and
\* the same preemption rate.
SameConfiguration ==
    /\ unwrap_or(runs[1].seed, 0) = unwrap_or(runs[2].seed, 0)
    /\ runs[1].preemption_rate = runs[2].preemption_rate

StepsReturned == trace.res # "panic"

\* The counter and the clock never go back.
CountersMonotone ==
    /\ machine'.basic_block_count >= machine.basic_block_count
    /\ machine'.clock >= machine.clock

\* C21: after k calls of the step hook that returned, the count of executed
\* blocks is k and the clock has ticked k times; neither ever decreases.
C21_CountAndClock ==
    /\ [](machine.basic_block_count = trace.calls)
    /\ [](StepsReturned => machine.clock = trace.calls)
    /\ [][CountersMonotone]_vars

\* Three steps have been taken, with a collection among them.
C21_Witness ==
    /\ StepsReturned /\ trace.calls = 3 /\ machine.clock = 3
    /\ machine.basic_block_count = 3 /\ trace.gc_passes > 0

\* What the last call of the step hook did, in order.
Whats == [i \in DOMAIN trace.order |-> trace.order[i].what]

\* The entry of the log of the last call for what it did.
LogOf(what) ==
    trace.order[CHOOSE i \in DOMAIN trace.order : trace.order[i].what = what]

\* The last hook called was the step hook, and it returned.
StepTaken == trace.op = "before_terminator" /\ trace.res = "Ok"

\* C28: within one step the hook increments the counters, reports progress
\* if due, collects if due, lets the scheduler decide on a preemption and
\* ticks the clock, in this order: the collection finds the thread that
\* was active when the step began and an untouched generator, and the clock
\* ticks once the preemption decision has been drawn.
C28_StepOrder ==
    StepTaken =>
        /\ Whats = <<"count">>
                   \o (IF trace.reported THEN <<"report">> ELSE <<>>)
                   \o (IF trace.gc THEN <<"gc">> ELSE <<>>)
                   \o <<"preempt", "tick">>
        /\ LogOf("count").counted = 0
        /\ trace.reported => LogOf("report").counted = 1
        /\ trace.reported <=> /\ machine.report_progress > 0
                              /\ machine.basic_block_count % machine.report_progress = 0
        /\ trace.gc => /\ LogOf("gc").counted = 1
                       /\ LogOf("gc").active = LogOf("count").active
                       /\ LogOf("gc").drawn = 0
                       /\ LogOf("gc").ticked = 0
        /\ LogOf("preempt").drawn = 0 /\ LogOf("preempt").ticked = 0
        /\ LogOf("tick").ticked = 0
        /\ LogOf("tick").drawn = (IF machine.preemption_rate > 0 THEN 1 ELSE 0)

\* A step with a progress report, a collection and a thread switch.
C28_Witness ==
    /\ StepTaken /\ trace.reported /\ trace.gc
    /\ LogOf("tick").active # LogOf("gc").active

(***************************************************************************)
(* Claims about the aliasing monitor.                                      *)
(***************************************************************************)
MonitorOff == ~cfg.borrow_tracker

\* No allocation and no frame holds state of the monitor, and the monitor
\* has handed out no tag.
NoAliasingState ==
    /\ \A i \in DOMAIN allocs : ~allocs[i].borrow_tracker.some
    /\ \A t \in ThreadIds : \A d \in DOMAIN stacks[t].stack :
           ~stacks[t].stack[d].borrow_tracker
    /\ borrow_tracker.next_ptr_tag = 1

\* The last hooks did not go to the monitor and returned what they return
\* without it.
HooksSkipMonitor ==
    /\ trace.monitor = <<>>
    /\ \A k \in DOMAIN hook.calls : hook.calls[k].to # "borrow_tracker"
    /\ hook.res # "AliasingViolation"
    /\ trace.op = "adjust_alloc_base_pointer" => trace.ptr_after.provenance.tag = 0
    /\ trace.op = "retag_ptr_value" => trace.ptr_after = trace.ptr

\* A step of retag_place_contents.
RetagPlaceStep == trace'.op = "retag_place_contents" /\ trace'.hooks = trace.hooks + 1

\* C22: with the aliasing monitor disabled no allocation and no frame gets
\* aliasing state, base pointers carry the default tag, retag_ptr_value
\* returns its argument, retag_place_contents changes nothing, popping a
\* frame runs no step of the monitor, and no read, write or deallocation
\* fails with an aliasing violation.
C22_DisabledMonitorIsNoOp ==
    /\ [](MonitorOff => NoAliasingState /\ HooksSkipMonitor)
    /\ [][MonitorOff /\ RetagPlaceStep =>
              UNCHANGED <<provVars, memVars, stacks, rng, const_cache, machine, roots, runs>>]_vars

\* The monitor is disabled, a frame is on the stack, a pointer of tag 2 was
\* retagged and a deallocation went through.
C22_Witness ==
    /\ MonitorOff
    /\ trace.op = "retag_ptr_value" /\ trace.ptr.provenance.tag = 2
    /\ hook.op = "deallocate" /\ hook.res = "Ok"
    /\ stacks[threads.active].stack # <<>>

(***************************************************************************)
(* Claims about abnormal termination.                                      *)
(***************************************************************************)
\* A step of handle_abnormal_termination.
TerminationStep == trace'.terminations = trace.terminations + 1

\* C23: handle_abnormal_termination drops the profiler, once, and touches
\* nothing else: every other field of the machine and every other
\* component is as before, and a second call changes nothing at all.
C23_AbnormalTermination ==
    /\ [](trace.terminations > 0 => ~machine.profiler)
    /\ [](trace.released <= 1)
    /\ [][TerminationStep =>
            /\ machine' = [machine EXCEPT !.profiler = FALSE]
            /\ trace'.released = trace.released + (IF machine.profiler THEN 1 ELSE 0)
            /\ UNCHANGED <<provVars, memVars, stacks, rng, const_cache, roots, runs>>
            /\ trace.terminations > 0 => machine' = machine]_vars

\* The profiler was dropped by the first call, with a frame on the stack and
\* after a step of the program, and the handler has run a second time.
C23_Witness ==
    /\ trace.terminations = 2 /\ trace.released = 1
    /\ stacks[threads.active].stack # <<>>
    /\ machine.basic_block_count > 0

(***************************************************************************)
(* Claims about calls of foreign functions.                                *)
(***************************************************************************)
\* A step of find_mir_or_eval_fn.
CallStep == trace'.op = "find_mir_or_eval_fn" /\ trace'.hooks = trace.hooks + 1

\* The last call went where the kind of its callee sends it.
Routed ==
    trace.found.route = IF trace.call.is_foreign_item
                        THEN "emulate_foreign_item" ELSE "load_mir"

\* The dispatcher's answer to the last call, when it gave one: the call is
\* emulated, the destination written and the continuation taken, or the
\* function is not supported and the call ends with that error.
Answered ==
    trace.found.inner \in {"NeedsJumping", "NotSupported"} =>
        /\ trace.found.inner = "NeedsJumping" <=> trace.call.link_name = "___errno"
        /\ trace.found.inner = "NeedsJumping" =>
               trace.found.jumped /\ trace.found.res = "Ok" /\ trace.dest = ErrnoRef
        /\ trace.found.inner = "NotSupported" =>
               ~trace.found.jumped /\ trace.found.res = "UnsupportedOperation"

\* C24: a call of a function without a body goes to emulate_foreign_item and
\* never to load_mir; the dispatcher of the Solaris family, when it answers,
\* emulates the call and takes the continuation or answers NotSupported, and
\* to every name but "___errno" it answers NotSupported and changes nothing.
C24_ForeignDispatch ==
    /\ [](trace.op = "find_mir_or_eval_fn" => Routed /\ Answered)
    /\ [](trace.op = "find_mir_or_eval_fn" /\ trace.call.is_foreign_item
              /\ trace.call.link_name # "___errno" =>
                  trace.found.inner = "NotSupported" /\ trace.dest = trace.call.dest)
    /\ [][CallStep /\ trace'.call.is_foreign_item /\ trace'.call.link_name # "___errno" =>
              /\ UNCHANGED <<provVars, memVars, stacks, rng, const_cache, machine, roots, runs>>
              /\ trace'.dest = trace.dest]_vars

\* A foreign function other than "___errno" was called in the way "___errno"
\* is, after a call of "___errno" had written the destination.
C24_Witness ==
    /\ trace.op = "find_mir_or_eval_fn" /\ trace.call.is_foreign_item
    /\ trace.call.link_name = "getpid" /\ trace.call.abi = "C" /\ trace.call.nargs = 0
    /\ trace.call.engine_ok
    /\ trace.found.inner = "NotSupported" /\ trace.dest = ErrnoRef

(***************************************************************************)
(* Claims about the symbolic alignment check.                              *)
(***************************************************************************)
\* The promise that holds for the allocation of the call.
Promise ==
    IF pin.alloc_id \in DOMAIN pin.symbolic_alignment
    THEN pin.symbolic_alignment[pin.alloc_id]
    ELSE <<SizeZero, pin.alloc_align>>

\* The call is one that the symbolic check decides.
SymbolicCall ==
    /\ pout.op = "alignment_check"
    /\ pin.check_alignment = "Symbolic" /\ pin.alloc_kind = "LiveData"

\* The integer offset - promised_offset is divisible by align: align divides
\* 2^16, so the difference of the lowest limbs decides it.
DifferenceDivisible == (pin.offset[1] - Promise[1][1]) % pin.align = 0

\* C29: with symbolic alignment checking and a live data allocation, an
\* access at offset o that requires alignment A is accepted iff the promised
\* alignment is at least A and o - promised_offset is divisible by A, the
\* promise being (0, alignment of the allocation) when none is recorded; so
\* also for o < promised_offset, where the distance wraps around.
C29_AcceptedIffAligned ==
    SymbolicCall =>
        /\ pout.val.res = "Ok"
        /\ ~pout.val.some <=> (Promise[2] >= pin.align /\ DifferenceDivisible)

\* An access below the promised offset, beyond a limb's borrow, is accepted
\* for an alignment of more than one byte.
C29_Witness ==
    /\ SymbolicCall /\ ~pout.val.some
    /\ pin.alloc_id \in DOMAIN pin.symbolic_alignment
    /\ u64_lt(pin.offset, Promise[1])
    /\ pin.offset[2] = 0 /\ Promise[1][2] = 1
    /\ pin.align > 1

\* n is a power of two.
PowerOfTwo(n) == \E k \in 0..29 : n = 2^k

\* C30: a misalignment that the symbolic check reports has an available
\* alignment that is a power of two below the required one; when it comes
\* from the distance, the distance is not 0, the shift is by less than 64
\* bits, and the available alignment is the largest power of two that
\* divides the distance.
C30_ReportedAlignment ==
    (pout.op = "alignment_check" /\ pout.val.some) =>
        /\ PowerOfTwo(pout.val.has)
        /\ pout.val.has < pout.val.required
        /\ pout.val.required = pin.align
        /\ pout.val.branch = "distance" =>
               /\ pout.val.distance # SizeZero
               /\ pout.val.shift < 64
               /\ pout.val.has = 2^pout.val.shift
               /\ u64_rem(pout.val.distance, pout.val.has) = 0
               /\ u64_rem(pout.val.distance, 2 * pout.val.has) # 0

\* A misalignment from a distance that wrapped around: the access lies below
\* the promised offset, and the distance is even.
C30_Witness ==
    /\ pout.op = "alignment_check" /\ pout.val.some
    /\ pout.val.branch = "distance"
    /\ u64_lt(pin.offset, Promise[1])
    /\ pout.val.has = 2 /\ pout.val.required = 4

(***************************************************************************)
(* Claims about diagnostics.                                               *)
(***************************************************************************)
\* A machine without what it tracks and what it emitted.
Untracked(s) ==
    [s EXCEPT !.cfg.tracked_alloc_ids = {}, !.cfg.track_alloc_accesses = FALSE,
              !.hook.events = <<>>]

\* One event if it is due, none otherwise.
Due(due, event) == IF due THEN <<event>> ELSE <<>>

\* The events that the last hook of machine s has to emit.
EventsDue(s) ==
    LET tracked == s.hook.id \in s.cfg.tracked_alloc_ids
        kind == s.allocs[s.hook.id].kind
    IN CASE s.hook.op = "adjust_allocation" ->
              Due(tracked, [event |-> "CreatedAlloc", id |-> s.hook.id, kind |-> kind])
         [] s.hook.op = "deallocate" ->
              Due(tracked, [event |-> "FreedAlloc", id |-> s.hook.id, kind |-> kind])
         [] s.hook.op = "read" ->
              Due(tracked /\ s.cfg.track_alloc_accesses,
                   [event |-> "AccessedAlloc", id |-> s.hook.id, kind |-> "Read"])
         [] s.hook.op = "write" ->
              Due(tracked /\ s.cfg.track_alloc_accesses,
                   [event |-> "AccessedAlloc", id |-> s.hook.id, kind |-> "Write"])
         [] OTHER -> <<>>

\* C25: two machines that differ only in the allocation ids they track and
\* in whether they track accesses are, after the same hooks, in the same
\* state with the same result of every hook; they differ in the events
\* only, a machine emitting the created and the freed event of exactly the
\* ids it tracks and the accessed event of exactly those when it tracks
\* accesses.
C25_TrackingObservesOnly ==
    /\ DOMAIN runs = 1..2 => Untracked(runs[1]) = Untracked(runs[2])
    /\ \A i \in DOMAIN runs : runs[i].hook.events = EventsDue(runs[i])

\* The second machine tracks allocation 1 and its accesses: a deallocation
\* that the monitor rejects in both has emitted the freed event in the
\* second machine only, after a write with its event.
C25_Witness ==
    /\ DOMAIN runs = 1..2
    /\ runs[2].cfg.tracked_alloc_ids = {1} /\ runs[2].cfg.track_alloc_accesses
    /\ runs[1].hook.op = "deallocate" /\ runs[1].hook.id = 1
    /\ runs[1].hook.res = "AliasingViolation" /\ runs[2].hook.res = "AliasingViolation"
    /\ runs[1].hook.events = <<>>
    /\ runs[2].hook.events = <<[event |-> "FreedAlloc", id |-> 1, kind |-> "Rust"]>>
    /\ runs[1].hook.n = 3

(***************************************************************************)
(* Claims about the table of extern statics.                               *)
(***************************************************************************)
\* A step of add_extern_static.
RegistrationStep == trace'.op = "add_extern_static" /\ trace' # trace

\* C31: every entry of extern_statics is a pointer of Concrete provenance;
\* add_extern_static for a name that has an entry panics and leaves the
\* table as it is, and no step removes or replaces an entry.
C31_ExternStaticsTable ==
    /\ [](\A n \in DOMAIN machine.extern_statics :
             machine.extern_statics[n].provenance.kind = "Concrete")
    /\ [][\A n \in DOMAIN machine.extern_statics :
             /\ n \in DOMAIN machine'.extern_statics
             /\ machine'.extern_statics[n] = machine.extern_statics[n]]_vars
    /\ [][RegistrationStep /\ trace'.link_name \in DOMAIN machine.extern_statics =>
             trace'.res = "panic" /\ machine' = machine]_vars

\* A second allocation was registered under the name of the first: the call
\* panicked and the name still leads to the first.
C31_Witness ==
    /\ trace.op = "add_extern_static" /\ trace.res = "panic"
    /\ trace.link_name = "environ"
    /\ DOMAIN machine.extern_statics = {"environ"}
    /\ machine.extern_statics["environ"].provenance.alloc_id = 1
    /\ Len(allocs) = 2 /\ allocs[2].kind = "ExternStatic"

(***************************************************************************)
(* Claims about the backtrace of an allocation.                            *)
(***************************************************************************)

\* The kinds of MiriMemoryKind whose memory may be left allocated at the end.
LeakPermitted == {"Machine", "Global", "ExternStatic", "Tls", "Mmap"}

ProtectCall == trace.op = "protect_in_place_function_argument"
ProtectStep == trace'.op = "protect_in_place_function_argument" /\ trace'.hooks = trace.hooks + 1
ProtectFailed(t) ==
    /\ t.res # "Ok"
    /\ t.protect.log = <<[step |-> "protect_place", place |-> t.ptr]>>

MachineValueTags ==
    UNION {roots[f] : f \in DOMAIN roots \ {"memory"}} \cup ConstCacheTags

\* C34: the machine's provenance visitor reaches the tag of every pointer
\* value stored in a field of the machine, the memoized constants included.
C34_VisitorReachesEveryMachineValue == MachineValueTags \subseteq visit_provenance(roots)

(***************************************************************************)
(* Claims about the top user-relevant frame of a thread.                   *)
(***************************************************************************)
\* The index, from 0, of the topmost frame of stack whose is_user_relevant
\* flag is set; -1 stands for none.
TopmostUserRelevant(stack) ==
    IF \A i \in 1..Len(stack) : ~stack[i].is_user_relevant THEN -1
    ELSE CHOOSE i \in 0..(Len(stack) - 1) :
            /\ stack[i + 1].is_user_relevant
            /\ \A j \in (i + 2)..Len(stack) : ~stack[j].is_user_relevant

\* C35: after every sequence of pushes and pops on the threads, each thread's
\* top_user_relevant_frame is the index of the topmost frame on its stack
\* whose is_user_relevant flag is set, and none if there is no such frame.
C35_TopUserRelevantFrame ==
    \A t \in ThreadIds :
        stacks[t].top_user_relevant_frame = TopmostUserRelevant(stacks[t].stack)
C35_Witness ==
    /\ trace.op = "pop" /\ Len(trace.frames) = 2
    /\ \A t \in ThreadIds \ {threads.active} : stacks[t].stack = <<>>
    /\ Len(stacks[threads.active].stack) = 1
    /\ stacks[threads.active].stack[1].is_user_relevant
    /\ stacks[threads.active].top_user_relevant_frame = 0

(***************************************************************************)
(* Claims about the width of since_gc.                                     *)
(***************************************************************************)
CounterStep == trace'.op = "before_terminator" /\ trace'.calls = trace.calls + 1

\* C36: since_gc stays bounded: after every step it is strictly below
\* gc_interval when gc_interval > 0, and in no run does a step take it around
\* the end of its 32 bits, whether gc_interval is 0 or not: each step ends
\* without overflow, with since_gc one higher than before or reset by the
\* collection.
C36_SinceGcBounded ==
    /\ [](u32_lt(U32Zero, machine.gc_interval) =>
            u32_lt(machine.since_gc, machine.gc_interval))
    /\ [][CounterStep =>
             /\ trace'.res # "panic"
             /\ trace'.gc \/ u32_lt(machine.since_gc, machine'.since_gc)]_vars

(***************************************************************************)
(* Claims about the timing records of frames.                              *)
(***************************************************************************)
PopStep == trace'.op = "pop" /\ stacks' # stacks

\* C37: no pop fails on a missing timing record: whenever the profiler is
\* present, every frame on every stack carries the timing record started at
\* its push, so the frame that is popped has one; after the profiler was
\* released by handle_abnormal_termination a pop does not ask for the record,
\* and the frames pushed before the release are popped without failure.
C37_PopFindsTimingRecord ==
    /\ [](trace.res # "panic")
    /\ [](machine.profiler =>
            \A t \in ThreadIds : \A i \in 1..Len(stacks[t].stack) : stacks[t].stack[i].timing)
    /\ [][PopStep /\ machine.profiler =>
             stacks[threads.active].stack[Len(stacks[threads.active].stack)].timing]_vars
C37_Witness ==
    /\ trace.op = "pop" /\ trace.res = "terminated"
    /\ trace.released = 1 /\ ~machine.profiler
    /\ Len(trace.frames) = 2
    /\ Len(stacks[threads.active].stack) = 1
    /\ stacks[threads.active].stack[1].timing
    /\ \A t \in ThreadIds \ {threads.active} : stacks[t].stack = <<>>

(***************************************************************************)
(* Claims about constants whose evaluation fails.                          *)
(***************************************************************************)
\* A call of eval_mir_constant that invoked the evaluation function.
MissStep == trace'.op = "eval_const" /\ trace'.n_evals = trace.n_evals + 1

\* C38: when the evaluation function fails on a miss, the error is returned,
\* the cache is exactly as before the call and holds nothing for the key; and
\* an evaluation that follows a failed one with the same key invokes the
\* evaluation function again.
C38_FailedEvalStoresNothing ==
    /\ [](trace.op = "eval_const" /\ trace.res = "Err" =>
            /\ LastKey \notin DOMAIN const_cache
            /\ ~trace.hit /\ trace.invoked = 1 /\ trace.value = NoValue)
    /\ [][MissStep /\ trace'.res = "Err" => const_cache' = const_cache]_vars
    /\ [][(/\ trace.op = "eval_const" /\ trace.res = "Err"
           /\ trace'.op = "eval_const" /\ trace'.const = trace.const
           /\ trace'.salt = trace.salt /\ trace'.n_evals <= MaxEvals
           /\ const_cache' # const_cache \/ trace' # trace)
             => MissStep /\ trace'.invoked = 1 /\ ~trace'.hit]_vars
C38_Witness ==
    /\ trace.op = "eval_const" /\ trace.res = "Err"
    /\ trace.n_evals = 3
    /\ Cardinality(DOMAIN const_cache) = 1
    /\ LastKey \notin DOMAIN const_cache
    /\ \E k \in DOMAIN const_cache : k[2] = trace.salt

(***************************************************************************)
(* Claims about nested evaluations of constants.                           *)
(***************************************************************************)
\* C39: an evaluation of a constant whose evaluation function asks, on a
\* miss, for a constant through the same cache completes without failure.
C39_NestedEvaluationCompletes ==
    trace.op = "eval_const" /\ trace.nested # NoNested => trace.res # "panic"

(***************************************************************************)
(* Claims about the algebra of join.                                       *)
(***************************************************************************)
\* C40: join is commutative, idempotent and associative over all values,
\* every Concrete provenance, Wildcard and unknown (None); None absorbs and
\* Wildcard is the identity, on either side; and the joins the interpreter
\* makes of three operands give the same value in both groupings.
C40_JoinAlgebra ==
    LET a == pin[1]
        b == pin[2]
        c == pin[3]
    IN /\ join(a, b) = join(b, a)
       /\ join(a, a) = a
       /\ join(join(a, b), c) = join(a, join(b, c))
       /\ join(None, a) = None /\ join(a, None) = None
       /\ join(Wildcard, a) = a /\ join(a, Wildcard) = a
       /\ pout.op = "join" => pout.val = join(b, a)
       /\ pout.op = "join_left" => pout.val = join(a, join(b, c))
       /\ pout.op = "join_right" => pout.val = join(join(a, b), c)
C40_Witness ==
    /\ pout.op = "join_left"
    /\ pin = <<Concrete(1, 1), Wildcard, Concrete(1, 1)>>
    /\ pout.val = Concrete(1, 1)

=============================================================================
